---- MODULE Spec2Model ----
(***************************************************************************)
(* Verification model of the tangible-interface farm game:                 *)
(*   - core/circuit_logic.py   gates and the zone-based circuit evaluator  *)
(*   - core/phase_manager.py   phase validation                            *)
(*   - cv/base_processor.py    temporal validation of recognitions         *)
(*   - cv/action_handler.py    action dispatch and its cooldown            *)
(*   - cv/zone_manager.py      zones of the current screen                 *)
(*                                                                         *)
(* Python values are encoded as follows.  Optional[int] zone values are    *)
(* integers with None == -1.  Strings are TLA+ strings; accented letters   *)
(* of the source's messages are written without the accent.  A dict is a   *)
(* function whose DOMAIN is the dict's key set.  Clock readings            *)
(* (time.time()) are integers in seconds; the two thresholds of            *)
(* cv/config.py are 2.0 s.                                                 *)
(***************************************************************************)
EXTENDS Integers, Sequences, FiniteSets, TLC

\* ---------------------------------------------------------------- bounds

\* longest input list handed to a gate in the gate specification
MaxGateInputs == 3

\* ------------------------------------------------------- Python encodings

\* Python's None where an Optional[int] is expected
None == -1

\* Python's None where an Optional[str] (a detected label) is expected
NoObject == "None"

\* the empty dict {}
EmptyDict == <<>>

\* d.get(k) for a dict of labels
GetLabel(d, k) == IF k \in DOMAIN d THEN d[k] ELSE NoObject

\* d.get(k) for a dict of Optional[int]
GetValue(d, k) == IF k \in DOMAIN d THEN d[k] ELSE None

\* d[k] = v on a dict
Put(d, k, v) == [x \in (DOMAIN d) \cup {k} |-> IF x = k THEN v ELSE d[x]]

\* the set of elements of a list
Range(s) == {s[i] : i \in DOMAIN s}

\* ------------------------------------------------------------------ gates

\* Gate.has_valid_inputs: all(inp in [0, 1] for inp in self.inputs)
has_valid_inputs(inputs) == \A i \in DOMAIN inputs : inputs[i] \in {0, 1}

\* a faulty AndGate.evaluate: the inputs are not validated
AndGate_evaluate_unvalidated(inputs) ==
    IF Len(inputs) = 0
    THEN None
    ELSE IF \A i \in DOMAIN inputs : inputs[i] = 1 THEN 1 ELSE 0

\* AndGate.evaluate
AndGate_evaluate(inputs) ==
    IF Len(inputs) = 0 \/ ~has_valid_inputs(inputs)
    THEN None
    ELSE IF \A i \in DOMAIN inputs : inputs[i] = 1 THEN 1 ELSE 0

\* OrGate.evaluate
OrGate_evaluate(inputs) ==
    IF Len(inputs) = 0 \/ ~has_valid_inputs(inputs)
    THEN None
    ELSE IF \E i \in DOMAIN inputs : inputs[i] = 1 THEN 1 ELSE 0

\* NotGate.evaluate
NotGate_evaluate(inputs) ==
    IF Len(inputs) # 1 \/ ~has_valid_inputs(inputs)
    THEN None
    ELSE IF inputs[1] = 0 THEN 1 ELSE 0

\* CircuitEvaluator.GATE_TYPES (the keys)
GATE_TYPES == {"and_gate", "or_gate", "not_gate"}

\* create_gate(gate_type).set_inputs(*inputs).evaluate()
gate_evaluate(gate_type, inputs) ==
    CASE gate_type = "and_gate" -> AndGate_evaluate(inputs)
      [] gate_type = "or_gate"  -> OrGate_evaluate(inputs)
      [] gate_type = "not_gate" -> NotGate_evaluate(inputs)
      [] OTHER -> None

\* ------------------------------------------------------ phase configuration

\* OBJECT_TO_GAME_ELEMENT: physical label -> game element
OBJECT_TO_GAME_ELEMENT ==
    [o \in {"remote", "clock", "orange", "cell phone", "scissors"} |->
        CASE o = "remote"     -> "solar_input"
          [] o = "clock"      -> "wind_input"
          [] o = "orange"     -> "and_gate"
          [] o = "cell phone" -> "or_gate"
          [] o = "scissors"   -> "not_gate"]

\* the four zone configurations of FASE1_CONFIG["zones"] (rect and display
\* positions are not used by the evaluation)
FASE1_ZONES ==
    << [name |-> "INPUT1", allowed_elements |-> {"solar_input", "wind_input"},
        inputs |-> <<>>],
       [name |-> "INPUT2", allowed_elements |-> {"solar_input", "wind_input"},
        inputs |-> <<>>],
       [name |-> "GATE1", allowed_elements |-> {"and_gate"},
        inputs |-> <<"INPUT1", "INPUT2">>],
       [name |-> "GATE2", allowed_elements |-> {"not_gate"},
        inputs |-> <<"GATE1">>] >>

\* FASE1_CONFIG
FASE1_CONFIG ==
    [fase_id |-> 1,
     inputs |-> [k \in {"solar", "eolico"} |-> IF k = "solar" THEN 0 ELSE 1],
     expected_value |-> 1,
     output_zone |-> "GATE2",
     evaluation_order |-> <<"INPUT1", "INPUT2", "GATE1", "GATE2">>,
     zones |-> FASE1_ZONES]

\* FASE2_CONFIG: day without wind, GATE1 takes an OR gate
FASE2_CONFIG ==
    [fase_id |-> 2,
     inputs |-> [k \in {"solar", "eolico"} |-> IF k = "solar" THEN 1 ELSE 0],
     expected_value |-> 1,
     output_zone |-> "GATE2",
     evaluation_order |-> <<"INPUT1", "INPUT2", "GATE1", "GATE2">>,
     zones |-> [FASE1_ZONES EXCEPT ![3].allowed_elements = {"or_gate"}]]

\* PHASES: the registered phases
PHASES == {FASE1_CONFIG, FASE2_CONFIG}

\* current_phase before any set_phase (Python None)
NoPhase == [fase_id |-> 0]

\* ------------------------------------------------------- circuit evaluator

\* the messages of evaluate_zone / evaluate_circuit: the text around the
\* interpolated names, and the interpolated names
Err(text, a, b) == [text |-> text, a |-> a, b |-> b]

NoErr == Err("", "", "")

\* the "element not permitted" message of evaluate_zone
NotPermittedErr(game_element, zone_name) ==
    Err("Elemento '{}' nao e permitido na zona {}", game_element, zone_name)

\* a faulty evaluate_zone: an element outside allowed_elements goes unreported
Computed_unreported(value, is_allowed, game_element, zone_name) ==
    << value, TRUE, NoErr >>

\* value and message of a computed zone: the message is empty iff allowed
Computed(value, is_allowed, game_element, zone_name) ==
    << value, is_allowed,
       IF is_allowed THEN NoErr ELSE NotPermittedErr(game_element, zone_name) >>

\* a faulty loop: an input zone without an entry in the table counts as 0
RECURSIVE CollectInputs_defaulting(_, _, _, _)
CollectInputs_defaulting(input_zones, i, zone_values, acc) ==
    IF i > Len(input_zones)
    THEN << TRUE, acc >>
    ELSE IF input_zones[i] \notin DOMAIN zone_values
         THEN CollectInputs_defaulting(input_zones, i + 1, zone_values, Append(acc, 0))
         ELSE IF zone_values[input_zones[i]] = None
              THEN << FALSE, Err("Input '{}' tem valor invalido", input_zones[i], "") >>
              ELSE CollectInputs_defaulting(input_zones, i + 1, zone_values,
                                            Append(acc, zone_values[input_zones[i]]))

\* the loop of evaluate_zone collecting the values of the input zones:
\* <<ok, values or the message of the first input that fails>>
RECURSIVE CollectInputs(_, _, _, _)
CollectInputs(input_zones, i, zone_values, acc) ==
    IF i > Len(input_zones)
    THEN << TRUE, acc >>
    ELSE IF input_zones[i] \notin DOMAIN zone_values
         THEN << FALSE, Err("Input '{}' ainda nao foi avaliado", input_zones[i], "") >>
         ELSE IF zone_values[input_zones[i]] = None
              THEN << FALSE, Err("Input '{}' tem valor invalido", input_zones[i], "") >>
              ELSE CollectInputs(input_zones, i + 1, zone_values,
                                 Append(acc, zone_values[input_zones[i]]))

\* a faulty gate branch: an element that is not permitted is reported before
\* its inputs are read
EvaluateGateZone_permission_first(zone_name, zone_config, game_element, is_allowed, zone_values) ==
    IF ~is_allowed
    THEN << None, FALSE, NotPermittedErr(game_element, zone_name) >>
    ELSE IF Len(zone_config.inputs) = 0
    THEN << None, FALSE, Err("Zona {} nao tem inputs definidos", zone_name, "") >>
    ELSE LET got == CollectInputs(zone_config.inputs, 1, zone_values, <<>>)
         IN  IF ~got[1]
             THEN << None, FALSE, got[2] >>
             ELSE LET result == gate_evaluate(game_element, got[2])
                  IN  IF result = None
                      THEN << None, FALSE,
                              Err("Erro ao avaliar porta {} na zona {}",
                                  game_element, zone_name) >>
                      ELSE << result, TRUE, NoErr >>

\* the gate branch of evaluate_zone
EvaluateGateZone(zone_name, zone_config, game_element, is_allowed, zone_values) ==
    IF Len(zone_config.inputs) = 0
    THEN << None, FALSE, Err("Zona {} nao tem inputs definidos", zone_name, "") >>
    ELSE LET got == CollectInputs(zone_config.inputs, 1, zone_values, <<>>)
         IN  IF ~got[1]
             THEN << None, FALSE, got[2] >>
             ELSE LET result == gate_evaluate(game_element, got[2])
                  IN  IF result = None
                      THEN << None, FALSE,
                              Err("Erro ao avaliar porta {} na zona {}",
                                  game_element, zone_name) >>
                      ELSE Computed(result, is_allowed, game_element, zone_name)

\* a faulty source branch: a source without a value is returned as valid
EvaluateSourceZone_silent(zone_name, game_element, is_allowed, input_values) ==
    LET input_key == IF game_element = "solar_input" THEN "solar" ELSE "eolico"
        value == GetValue(input_values, input_key)
    IN  IF value = None
        THEN << None, TRUE, NoErr >>
        ELSE Computed(value, is_allowed, game_element, zone_name)

\* a faulty source branch: the two sources read each other's value
EvaluateSourceZone_swapped(zone_name, game_element, is_allowed, input_values) ==
    LET input_key == IF game_element = "solar_input" THEN "eolico" ELSE "solar"
        value == GetValue(input_values, input_key)
    IN  IF value = None
        THEN << None, FALSE, Err("Valor do input '{}' nao definido", input_key, "") >>
        ELSE Computed(value, is_allowed, game_element, zone_name)

\* the source branch of evaluate_zone
EvaluateSourceZone(zone_name, game_element, is_allowed, input_values) ==
    LET input_key == IF game_element = "solar_input" THEN "solar" ELSE "eolico"
        value == GetValue(input_values, input_key)
    IN  IF value = None
        THEN << None, FALSE, Err("Valor do input '{}' nao definido", input_key, "") >>
        ELSE Computed(value, is_allowed, game_element, zone_name)

\* a faulty evaluate_zone: an empty zone is valid and reports nothing
evaluate_zone_empty_valid(zone_name, zone_config, detected_object, input_values, object_mapping, zone_values) ==
    << None, TRUE, NoErr >>

\* CircuitEvaluator.evaluate_zone: <<value, is_valid, error_msg>>;
\* zone_values is self.zone_values at the time of the call
evaluate_zone(zone_name, zone_config, detected_object, input_values, object_mapping, zone_values) ==
    IF detected_object = NoObject
    THEN << None, FALSE, Err("Zona {} esta vazia", zone_name, "") >>
    ELSE IF detected_object \notin DOMAIN object_mapping
    THEN << None, FALSE,
            Err("Objeto '{}' nao e reconhecido pelo jogo", detected_object, "") >>
    ELSE LET game_element == object_mapping[detected_object]
             is_allowed == game_element \in zone_config.allowed_elements
         IN  IF game_element \in {"solar_input", "wind_input"}
             THEN EvaluateSourceZone(zone_name, game_element, is_allowed, input_values)
             ELSE IF game_element \in GATE_TYPES
             THEN EvaluateGateZone(zone_name, zone_config, game_element,
                                   is_allowed, zone_values)
             ELSE << None, FALSE,
                     Err("Elemento '{}' nao e um input nem uma porta valida",
                         game_element, "") >>

\* zones_by_name.get(zone_name): the last zone config with that name, or
\* the empty record when there is none
HasZoneConfig(zones_config, zone_name) ==
    \E i \in DOMAIN zones_config : zones_config[i].name = zone_name

ZoneConfigOf(zones_config, zone_name) ==
    LET i == CHOOSE j \in DOMAIN zones_config :
                 /\ zones_config[j].name = zone_name
                 /\ \A k \in DOMAIN zones_config :
                        zones_config[k].name = zone_name => k <= j
    IN  zones_config[i]

\* a faulty loop: the pass stops at the first zone without configuration
\* or with an invalid result
RECURSIVE EvaluateFrom_aborting(_, _, _, _, _, _, _)
EvaluateFrom_aborting(i, zones_config, detected_objects, input_values, object_mapping, evaluation_order, acc) ==
    IF i > Len(evaluation_order)
    THEN acc
    ELSE LET zone_name == evaluation_order[i]
         IN  IF ~HasZoneConfig(zones_config, zone_name)
             THEN << Put(acc[1], zone_name, None),
                     Append(acc[2], Err("Zona '{}' nao encontrada na configuracao", zone_name, "")) >>
             ELSE LET r == evaluate_zone(zone_name,
                                         ZoneConfigOf(zones_config, zone_name),
                                         GetLabel(detected_objects, zone_name),
                                         input_values, object_mapping, acc[1])
                  IN  IF r[2]
                      THEN EvaluateFrom_aborting(i + 1, zones_config, detected_objects, input_values,
                                                 object_mapping, evaluation_order,
                                                 << Put(acc[1], zone_name, r[1]), acc[2] >>)
                      ELSE << Put(acc[1], zone_name, r[1]), Append(acc[2], r[3]) >>

\* the loop of evaluate_circuit from position i of evaluation_order:
\* <<zone_values, errors>>
RECURSIVE EvaluateFrom(_, _, _, _, _, _, _)
EvaluateFrom(i, zones_config, detected_objects, input_values, object_mapping, evaluation_order, acc) ==
    IF i > Len(evaluation_order)
    THEN acc
    ELSE LET zone_name == evaluation_order[i]
         IN  IF ~HasZoneConfig(zones_config, zone_name)
             THEN EvaluateFrom(i + 1, zones_config, detected_objects, input_values,
                               object_mapping, evaluation_order,
                               << Put(acc[1], zone_name, None),
                                  Append(acc[2],
                                         Err("Zona '{}' nao encontrada na configuracao",
                                             zone_name, "")) >>)
             ELSE LET r == evaluate_zone(zone_name,
                                         ZoneConfigOf(zones_config, zone_name),
                                         GetLabel(detected_objects, zone_name),
                                         input_values, object_mapping, acc[1])
                  IN  EvaluateFrom(i + 1, zones_config, detected_objects, input_values,
                                   object_mapping, evaluation_order,
                                   << Put(acc[1], zone_name, r[1]),
                                      IF r[2] THEN acc[2] ELSE Append(acc[2], r[3]) >>)

\* CircuitEvaluator.evaluate_circuit: starts from an empty self.zone_values
evaluate_circuit(zones_config, detected_objects, input_values, object_mapping, evaluation_order) ==
    EvaluateFrom(1, zones_config, detected_objects, input_values, object_mapping,
                 evaluation_order, << EmptyDict, <<>> >>)

\* ----------------------------------------------------------- phase manager

\* "phrase in err" of validate_phase: the two phrases it looks for occur in
\* one message text each (no zone, label or element name contains them)
ErrContains(err, phrase) ==
    \/ phrase = "nao e reconhecido" /\ err.text = "Objeto '{}' nao e reconhecido pelo jogo"
    \/ phrase = "nao e permitido" /\ err.text = "Elemento '{}' nao e permitido na zona {}"

\* the completeness loop of validate_phase
circuit_complete(zones_config, detected_objects) ==
    \A i \in DOMAIN zones_config :
        /\ zones_config[i].name \in DOMAIN detected_objects
        /\ detected_objects[zones_config[i].name] # NoObject

\* a faulty summary: "not permitted" is looked for first
error_summary_permitted_first(errors) ==
    IF \E i \in DOMAIN errors : ErrContains(errors[i], "nao e permitido")
    THEN "Voce ainda nao conseguiu! Objeto nao permitido na zona."
    ELSE IF \E i \in DOMAIN errors : ErrContains(errors[i], "nao e reconhecido")
    THEN "Voce ainda nao conseguiu! Objeto invalido detectado."
    ELSE "Voce ainda nao conseguiu! Verifique a montagem do circuito."

\* the message validate_phase builds when the evaluator reported errors
error_summary(errors) ==
    IF \E i \in DOMAIN errors : ErrContains(errors[i], "nao e reconhecido")
    THEN "Voce ainda nao conseguiu! Objeto invalido detectado."
    ELSE IF \E i \in DOMAIN errors : ErrContains(errors[i], "nao e permitido")
    THEN "Voce ainda nao conseguiu! Objeto nao permitido na zona."
    ELSE "Voce ainda nao conseguiu! Verifique a montagem do circuito."

\* a faulty verdict: the output is compared without the None check
Verdict_unchecked_output(phase, detected_objects, zone_values, errors) ==
    IF ~circuit_complete(phase.zones, detected_objects)
    THEN << FALSE, "Voce ainda nao conseguiu! Circuito incompleto." >>
    ELSE IF Len(errors) > 0
    THEN << FALSE, error_summary(errors) >>
    ELSE IF GetValue(zone_values, phase.output_zone) = phase.expected_value
    THEN << TRUE, "Voce conseguiu!" >>
    ELSE << FALSE, "Voce ainda nao conseguiu! Resultado incorreto." >>

\* a faulty verdict: the evaluator's errors are reported before completeness
Verdict_errors_first(phase, detected_objects, zone_values, errors) ==
    IF Len(errors) > 0
    THEN << FALSE, error_summary(errors) >>
    ELSE IF ~circuit_complete(phase.zones, detected_objects)
    THEN << FALSE, "Voce ainda nao conseguiu! Circuito incompleto." >>
    ELSE IF GetValue(zone_values, phase.output_zone) = None
    THEN << FALSE, "Voce ainda nao conseguiu! Erro ao calcular saida." >>
    ELSE IF GetValue(zone_values, phase.output_zone) = phase.expected_value
    THEN << TRUE, "Voce conseguiu!" >>
    ELSE << FALSE, "Voce ainda nao conseguiu! Resultado incorreto." >>

\* the verdict of validate_phase from the evaluator's output: <<success, message>>
Verdict(phase, detected_objects, zone_values, errors) ==
    IF ~circuit_complete(phase.zones, detected_objects)
    THEN << FALSE, "Voce ainda nao conseguiu! Circuito incompleto." >>
    ELSE IF Len(errors) > 0
    THEN << FALSE, error_summary(errors) >>
    ELSE LET final_output == GetValue(zone_values, phase.output_zone)
         IN  IF final_output = None
             THEN << FALSE, "Voce ainda nao conseguiu! Erro ao calcular saida." >>
             ELSE IF final_output = phase.expected_value
             THEN << TRUE, "Voce conseguiu!" >>
             ELSE << FALSE, "Voce ainda nao conseguiu! Resultado incorreto." >>

\* PhaseManager.validate_phase with a phase loaded: what it returns and stores
validate_phase(phase, detected_objects, object_mapping) ==
    LET ev == evaluate_circuit(phase.zones, detected_objects, phase.inputs, object_mapping, phase.evaluation_order)
        v  == Verdict(phase, detected_objects, ev[1], ev[2])
    IN  [success |-> v[1], message |-> v[2], zone_values |-> ev[1], errors |-> ev[2]]

\* ---------------------------------------------------- thresholds and keys

\* RECOGNITION_VALIDATION_TIME, in seconds
RECOGNITION_VALIDATION_TIME == 2

\* ACTION_COOLDOWN_TIME, in seconds
ACTION_COOLDOWN_TIME == 2

\* Python's None where a zone name is expected ("if not zone_name")
NoZone == "None"

\* a key string is the list of its pieces: a name or a zone is one piece
\* (no supported label is a prefix of another and none holds "_"), the
\* separator "_" is one piece, a number is one piece per decimal digit
DigitChars == << "0", "1", "2", "3", "4", "5", "6", "7", "8", "9" >>

\* str(i) for i >= 0
RECURSIVE IntToStr(_)
IntToStr(i) ==
    IF i < 10
    THEN << DigitChars[i + 1] >>
    ELSE Append(IntToStr(i \div 10), DigitChars[(i % 10) + 1])

\* object_key = f"{object_name}_{i}"
ObjectKey(object_name, i) == << object_name, "_" >> \o IntToStr(i)

\* validated_key = f"{item_key}_{recognition_name}_{zone_name}"
ValidatedKey(item_key, recognition_name, zone_name) ==
    item_key \o << "_", recognition_name, "_", zone_name >>

\* key.startswith(prefix)
startswith(key, prefix) ==
    /\ Len(prefix) <= Len(key)
    /\ SubSeq(key, 1, Len(prefix)) = prefix

\* del d[k] when present
Remove(d, k) == [x \in (DOMAIN d) \ {k} |-> d[x]]

\* the dict d restricted to the keys in keys
Restrict(d, keys) == [x \in keys |-> d[x]]

\* ------------------------------------------------------ temporal validator

\* the tracking state of a BaseRecognitionProcessor:
\*   starts     recognition_start_times  {item_key: (name, zone, start_time)}
\*   validated  validated_recognitions   {validated_key: time}
Tracking(starts, validated) == [starts |-> starts, validated |-> validated]

\* (recognition_name, zone_name, current_time) as stored in a track
Track(recognition_name, zone_name, start_time) ==
    [name |-> recognition_name, zone |-> zone_name, start_time |-> start_time]

\* a faulty clearing: the track goes, the commit records stay
clear_recognition_tracking_keeps_records(P, item_key) ==
    Tracking(Remove(P.starts, item_key), P.validated)

\* a faulty cleanup: nothing is cleaned
cleanup_undetected_items_skipped(P, currently_detected_items) == P

\* BaseRecognitionProcessor._clear_recognition_tracking
clear_recognition_tracking(P, item_key) ==
    LET keys_to_remove == {key \in DOMAIN P.validated : startswith(key, item_key)}
    IN  Tracking(Remove(P.starts, item_key), Restrict(P.validated, (DOMAIN P.validated) \ keys_to_remove))

\* the outcome of one _process_recognition_validation call: the tracking
\* state it leaves and whether it called _execute_validated_recognition
Outcome(P, fire) == [P |-> P, fire |-> fire]

\* a faulty dwell test: the threshold itself does not commit
dwell_elapsed_strict(elapsed_time) == elapsed_time > RECOGNITION_VALIDATION_TIME

\* elapsed_time >= RECOGNITION_VALIDATION_TIME
dwell_elapsed(elapsed_time) == elapsed_time >= RECOGNITION_VALIDATION_TIME

\* current_time - last_validated >= ACTION_COOLDOWN_TIME
cooldown_elapsed(current_time, last_validated) ==
    current_time - last_validated >= ACTION_COOLDOWN_TIME

\* a faulty validation: a held track commits without the dwell test
ValidateHeld_undwelt(P, recognition_name, zone_name, item_key, current_time) ==
    LET validated_key == ValidatedKey(item_key, recognition_name, zone_name)
        committed == Tracking(P.starts, Put(P.validated, validated_key, current_time))
    IN  IF validated_key \notin DOMAIN P.validated
        THEN Outcome(committed, TRUE)
        ELSE IF cooldown_elapsed(current_time, P.validated[validated_key])
             THEN Outcome(committed, TRUE)
             ELSE Outcome(P, FALSE)

\* the part of _process_recognition_validation after the track is known to
\* exist with the current pair
ValidateHeld(P, recognition_name, zone_name, item_key, current_time) ==
    IF dwell_elapsed(current_time - P.starts[item_key].start_time)
    THEN LET validated_key == ValidatedKey(item_key, recognition_name, zone_name)
             committed == Tracking(P.starts, Put(P.validated, validated_key, current_time))
         IN  IF validated_key \notin DOMAIN P.validated
             THEN Outcome(committed, TRUE)
             ELSE IF cooldown_elapsed(current_time, P.validated[validated_key])
                  THEN Outcome(committed, TRUE)
                  ELSE Outcome(P, FALSE)
    ELSE Outcome(P, FALSE)

\* a faulty pair comparison: only the name is compared, a move to another
\* zone keeps the track
tracked_state_differs_by_name(track, recognition_name, zone_name) ==
    track.name # recognition_name

\* tracked_state != current_state
tracked_state_differs(track, recognition_name, zone_name) ==
    << track.name, track.zone >> # << recognition_name, zone_name >>

\* BaseRecognitionProcessor._process_recognition_validation
process_recognition_validation(P, recognition_name, zone_name, item_key, current_time) ==
    IF zone_name = NoZone
    THEN Outcome(clear_recognition_tracking(P, item_key), FALSE)
    ELSE IF item_key \in DOMAIN P.starts /\ tracked_state_differs(P.starts[item_key], recognition_name, zone_name)
    THEN LET cleared == clear_recognition_tracking(P, item_key)
         IN  Outcome(Tracking(Put(cleared.starts, item_key, Track(recognition_name, zone_name, current_time)), cleared.validated), FALSE)
    ELSE IF item_key \notin DOMAIN P.starts
    THEN Outcome(Tracking(Put(P.starts, item_key, Track(recognition_name, zone_name, current_time)), P.validated), FALSE)
    ELSE ValidateHeld(P, recognition_name, zone_name, item_key, current_time)

\* the loop of _cleanup_undetected_items over the keys to clean
RECURSIVE ClearAll(_, _)
ClearAll(P, items_to_clean) ==
    IF items_to_clean = {}
    THEN P
    ELSE LET item_key == CHOOSE k \in items_to_clean : TRUE
         IN  ClearAll(clear_recognition_tracking(P, item_key), items_to_clean \ {item_key})

\* BaseRecognitionProcessor._cleanup_undetected_items
cleanup_undetected_items(P, currently_detected_items) ==
    ClearAll(P, (DOMAIN P.starts) \ currently_detected_items)

\* a faulty get_validation_progress: the fraction is returned as computed
get_validation_progress_unbounded(starts, item_key, time) ==
    IF item_key \notin DOMAIN starts THEN 0
    ELSE ((time - starts[item_key].start_time) * 100) \div RECOGNITION_VALIDATION_TIME

\* BaseRecognitionProcessor.get_validation_progress at a time.time() reading
\* of time, in hundredths (1.0 is 100)
get_validation_progress(starts, item_key, time) ==
    IF item_key \notin DOMAIN starts THEN 0
    ELSE LET elapsed_time == time - starts[item_key].start_time
             progress == (elapsed_time * 100) \div RECOGNITION_VALIDATION_TIME
         IN  IF progress < 100 THEN progress ELSE 100

\* ----------------------------------------------------- actions and screens

\* GESTURE_HISTORY_SIZE
GESTURE_HISTORY_SIZE == 5

\* BRIGHTNESS_LEVELS: object -> overlay opacity
BRIGHTNESS_LEVELS ==
    [o \in {"apple", "cup", "fork"} |->
        CASE o = "apple" -> 0
          [] o = "cup"   -> 102
          [] o = "fork"  -> 179]

\* VOLUME_LEVELS: object -> volume, in hundredths (0.7 is 70)
VOLUME_LEVELS ==
    [o \in {"toothbrush", "orange", "banana", "broccoli"} |->
        CASE o = "toothbrush" -> 70
          [] o = "orange"     -> 50
          [] o = "banana"     -> 30
          [] o = "broccoli"   -> 0]

\* COLOR_MODES: object -> colour mode
COLOR_MODES ==
    [o \in {"cell phone", "clock"} |->
        IF o = "cell phone" THEN "color" ELSE "grayscale"]

\* GESTURE_ACTIONS: action id -> the gestures that trigger it
GESTURE_ACTIONS ==
    [a \in {"TUTORIAL_PREVIOUS", "TUTORIAL_NEXT", "TUTORIAL_SKIP", "PHASE_RETURN_TUTORIAL", "PHASE_REPEAT_NARRATION", "PHASE_VALIDATE", "EXIT_GAME"} |->
        CASE a = "TUTORIAL_PREVIOUS"      -> {"Victory"}
          [] a = "TUTORIAL_NEXT"          -> {"Victory"}
          [] a = "TUTORIAL_SKIP"          -> {"Closed_Fist"}
          [] a = "PHASE_RETURN_TUTORIAL"  -> {"Victory"}
          [] a = "PHASE_REPEAT_NARRATION" -> {"Pointing_Up"}
          [] a = "PHASE_VALIDATE"         -> {"Open_Palm"}
          [] a = "EXIT_GAME"              -> {"ILoveYou"}]

\* OBJECT_ACTIONS: action id -> the objects that trigger it
OBJECT_ACTIONS ==
    [a \in {"CHANGE_BRIGHTNESS", "CHANGE_VOLUME", "CHANGE_COLOR_MODE"} |->
        CASE a = "CHANGE_BRIGHTNESS" -> DOMAIN BRIGHTNESS_LEVELS
          [] a = "CHANGE_VOLUME"     -> DOMAIN VOLUME_LEVELS
          [] a = "CHANGE_COLOR_MODE" -> DOMAIN COLOR_MODES]

\* get_gestures_for_actions / get_objects_for_actions: the names that
\* trigger one of the listed actions of the table
names_for_actions(actions_dict, action_keys) ==
    UNION {actions_dict[a] : a \in action_keys \cap DOMAIN actions_dict}

\* TUTORIAL_ORDER (TUTORIAL_STATES lists the same states)
TUTORIAL_ORDER ==
    << "cutscene1", "cutscene2", "cutscene3", "cutscene4_tutorial", "cutscene5_tutorial_pratico", "cutscene6_inicio_missoes" >>

TUTORIAL_STATES == Range(TUTORIAL_ORDER)

\* a zone of a screen: its name and the gestures and objects it accepts
Zone(name, gestures, objects) == [name |-> name, gestures |-> gestures, objects |-> objects]

\* CONFIG_ZONES
CONFIG_ZONES ==
    << Zone("SOM", {}, names_for_actions(OBJECT_ACTIONS, {"CHANGE_VOLUME"})),
       Zone("BRILHO", {}, names_for_actions(OBJECT_ACTIONS, {"CHANGE_BRIGHTNESS"})),
       Zone("COR", {}, names_for_actions(OBJECT_ACTIONS, {"CHANGE_COLOR_MODE"})) >>

\* FASE1_MATRIX_ZONES
FASE1_MATRIX_ZONES ==
    << Zone("INPUT1", {}, {"cell phone", "clock"}),
       Zone("INPUT2", {}, {"cell phone", "clock"}),
       Zone("GATE1", {}, {"toothbrush"}),
       Zone("GATE2", {}, {"banana"}) >>

\* TUTORIAL_ZONES
TUTORIAL_ZONES ==
    << Zone("GESTOS_ESQUERDA", names_for_actions(GESTURE_ACTIONS, {"TUTORIAL_PREVIOUS", "EXIT_GAME"}), {}),
       Zone("GESTOS_DIREITA", names_for_actions(GESTURE_ACTIONS, {"TUTORIAL_NEXT", "TUTORIAL_SKIP"}), {}) >> \o CONFIG_ZONES

\* SCREEN_ZONES["fase1"]
FASE1_SCREEN_ZONES ==
    << Zone("GESTOS_ESQUERDA", names_for_actions(GESTURE_ACTIONS, {"PHASE_RETURN_TUTORIAL", "EXIT_GAME"}), {}),
       Zone("GESTOS_DIREITA", names_for_actions(GESTURE_ACTIONS, {"PHASE_REPEAT_NARRATION", "PHASE_VALIDATE"}), {}) >> \o FASE1_MATRIX_ZONES

\* SCREEN_ZONES: game state -> the zones of its screen
SCREEN_ZONES ==
    [s \in TUTORIAL_STATES \cup {"fase1"} |->
        IF s = "fase1" THEN FASE1_SCREEN_ZONES ELSE TUTORIAL_ZONES]

\* ------------------------------------------------------------ zone manager

\* ZoneManager.get_current_zones
get_current_zones(current_game_state) ==
    IF current_game_state \in DOMAIN SCREEN_ZONES THEN SCREEN_ZONES[current_game_state] ELSE <<>>

\* the "rect" of the zones of CONFIG_ZONES, FASE1_MATRIX_ZONES and of the two
\* gesture zones (the same in every screen; CAMERA_WIDTH is 1920 and
\* CAMERA_HEIGHT 1080): << x1, y1, x2, y2 >>
ZONE_RECTS ==
    [n \in {"SOM", "BRILHO", "COR", "INPUT1", "INPUT2", "GATE1", "GATE2", "GESTOS_ESQUERDA", "GESTOS_DIREITA"} |->
        CASE n = "SOM"    -> << 0, 0, 300, 300 >>
          [] n = "BRILHO" -> << 400, 0, 700, 300 >>
          [] n = "COR"    -> << 800, 0, 1100, 300 >>
          [] n = "INPUT1" -> << 450, 50, 750, 350 >>
          [] n = "INPUT2" -> << 450, 650, 750, 950 >>
          [] n = "GATE1"  -> << 850, 350, 1150, 650 >>
          [] n = "GATE2"  -> << 1250, 350, 1550, 650 >>
          [] n = "GESTOS_ESQUERDA" -> << 25, 1080 - 300, 400, 1080 - 100 >>
          [] n = "GESTOS_DIREITA"  -> << 1920 - 400, 1080 - 300, 1920 - 25, 1080 - 100 >>]

\* a faulty get_zone_for_point: the edges of a rectangle are outside it
get_zone_for_point_exclusive(current_game_state, x, y) ==
    LET zones == get_current_zones(current_game_state)
        inside == {i \in DOMAIN zones :
                      /\ ZONE_RECTS[zones[i].name][1] < x /\ x < ZONE_RECTS[zones[i].name][3]
                      /\ ZONE_RECTS[zones[i].name][2] < y /\ y < ZONE_RECTS[zones[i].name][4]}
    IN  IF inside = {} THEN Zone(NoZone, {}, {})
        ELSE zones[CHOOSE i \in inside : \A j \in inside : i <= j]

\* ZoneManager.get_zone_for_point: the first zone of the screen whose
\* rectangle holds the point, Zone(NoZone, {}, {}) for None
get_zone_for_point(current_game_state, x, y) ==
    LET zones == get_current_zones(current_game_state)
        inside == {i \in DOMAIN zones :
                      /\ ZONE_RECTS[zones[i].name][1] <= x /\ x <= ZONE_RECTS[zones[i].name][3]
                      /\ ZONE_RECTS[zones[i].name][2] <= y /\ y <= ZONE_RECTS[zones[i].name][4]}
    IN  IF inside = {} THEN Zone(NoZone, {}, {})
        ELSE zones[CHOOSE i \in inside : \A j \in inside : i <= j]

\* the loop of get_zone_by_name: the first of zones with that name
find_zone(zones, zone_name) ==
    zones[CHOOSE j \in DOMAIN zones :
              /\ zones[j].name = zone_name
              /\ \A k \in 1..(j - 1) : zones[k].name # zone_name]

\* the loop of get_zone_by_name finds a zone with that name
zone_listed(zones, zone_name) == \E i \in DOMAIN zones : zones[i].name = zone_name

\* ZoneManager.get_zone_by_name found a zone
has_zone(current_game_state, zone_name) ==
    zone_listed(get_current_zones(current_game_state), zone_name)

\* ZoneManager.get_zone_by_name: the first zone of the screen with that name
get_zone_by_name(current_game_state, zone_name) ==
    find_zone(get_current_zones(current_game_state), zone_name)

\* a faulty legality test: every name is accepted in a zone of the screen
is_recognition_valid_for_zone_unchecked(recognition_name, zone, recognition_type) == TRUE

\* ZoneManager.is_recognition_valid_for_zone
is_recognition_valid_for_zone(recognition_name, zone, recognition_type) ==
    IF recognition_type = "gesture" THEN recognition_name \in zone.gestures
    ELSE IF recognition_type = "object" THEN recognition_name \in zone.objects
    ELSE FALSE

\* the test of _execute_validated_recognition with both managers attached
legal_for_zone(current_game_state, recognition_name, zone_name, recognition_type) ==
    /\ has_zone(current_game_state, zone_name)
    /\ is_recognition_valid_for_zone(recognition_name, get_zone_by_name(current_game_state, zone_name), recognition_type)

\* a faulty set_game_state: the cooldown table is emptied with the map
set_game_state_forgetting(S, state) ==
    IF state \in DOMAIN SCREEN_ZONES
    THEN [S EXCEPT !.current_game_state = state, !.zone_objects = EmptyDict, !.action_cooldown = EmptyDict]
    ELSE S

\* ZoneManager.set_game_state on the state S the camera thread works on
set_game_state(S, state) ==
    IF state \in DOMAIN SCREEN_ZONES
    THEN [S EXCEPT !.current_game_state = state, !.zone_objects = EmptyDict]
    ELSE S

\* game.state_manager.set_state(name) followed by zone_manager.set_game_state(name)
switch_state(S, name) == set_game_state([S EXCEPT !.current_state = name], name)

\* ----------------------------------------------------------- action handler

\* The action handler works on the objects reachable from it, gathered in a
\* record S with the fields
\*   now                      the last reading of time.time()
\*   action_cooldown          ActionHandler.action_cooldown
\*   recognition_history      ActionHandler.recognition_history
\*   current_phase_id         ActionHandler.current_phase_id (None before a load)
\*   current_game_state       ZoneManager.current_game_state
\*   zone_objects             ZoneManager.zone_objects
\*   current_state            the name of game.state_manager.current_state
\*   controller_running       GameController.running
\*   stop_camera              GestureCamera.stop_camera
\*   game_running             Game.running
\*   opacity                  game.brightness_overlay.opacity
\*   volume                   game.audio_manager.current_volume, in hundredths
\*   color_mode               game.color_filter.current_mode
\*   current_phase, last_validation_results, last_validation_errors,
\*   show_results, zone_values, ret      the phase manager and its evaluator

\* list.index(x)
IndexOf(seq, x) == CHOOSE i \in DOMAIN seq : seq[i] = x

\* action_key = f"{gesture_name}_{zone_name}"
ActionKey(gesture_name, zone_name) == << gesture_name, "_", zone_name >>

\* a faulty cooldown test: a call at exactly the cooldown time is suppressed
is_action_on_cooldown_inclusive(action_cooldown, gesture_name, zone_name, current_time) ==
    /\ ActionKey(gesture_name, zone_name) \in DOMAIN action_cooldown
    /\ current_time - action_cooldown[ActionKey(gesture_name, zone_name)] <= ACTION_COOLDOWN_TIME

\* ActionHandler._is_action_on_cooldown, current_time being its clock reading
is_action_on_cooldown(action_cooldown, gesture_name, zone_name, current_time) ==
    /\ ActionKey(gesture_name, zone_name) \in DOMAIN action_cooldown
    /\ current_time - action_cooldown[ActionKey(gesture_name, zone_name)] < ACTION_COOLDOWN_TIME

\* ActionHandler._register_cooldown, current_time being its clock reading
register_cooldown(action_cooldown, gesture_name, zone_name, current_time) ==
    Put(action_cooldown, ActionKey(gesture_name, zone_name), current_time)

\* a faulty history: at capacity the newest entry is the one dropped
add_to_history_keeps_oldest(recognition_history, recognition_name, zone_name, item_info, recognition_type, timestamp) ==
    IF Len(recognition_history) >= GESTURE_HISTORY_SIZE
    THEN recognition_history
    ELSE Append(recognition_history, [type |-> recognition_type, name |-> recognition_name, zone |-> zone_name, item_info |-> item_info, timestamp |-> timestamp])

\* ActionHandler._add_to_history, timestamp being its clock reading
add_to_history(recognition_history, recognition_name, zone_name, item_info, recognition_type, timestamp) ==
    LET recognition_data == [type |-> recognition_type, name |-> recognition_name, zone |-> zone_name, item_info |-> item_info, timestamp |-> timestamp]
        appended == Append(recognition_history, recognition_data)
    IN  IF Len(appended) > GESTURE_HISTORY_SIZE THEN Tail(appended) ELSE appended

\* state_zone_actions of _handle_gesture_actions: the action ids of a zone
\* in a state, in table order
gesture_valid_actions(current_state, zone_name) ==
    IF current_state \in TUTORIAL_STATES
    THEN CASE zone_name = "GESTOS_ESQUERDA" -> << "TUTORIAL_PREVIOUS", "EXIT_GAME" >>
           [] zone_name = "GESTOS_DIREITA"  -> << "TUTORIAL_NEXT", "TUTORIAL_SKIP" >>
           [] OTHER -> << >>
    ELSE IF current_state = "fase1"
    THEN CASE zone_name = "GESTOS_ESQUERDA" -> << "PHASE_RETURN_TUTORIAL", "EXIT_GAME" >>
           [] zone_name = "GESTOS_DIREITA"  -> << "PHASE_REPEAT_NARRATION", "PHASE_VALIDATE" >>
           [] OTHER -> << >>
    ELSE << >>

\* state_actions of _handle_object_actions: the action ids of a state, in
\* table order (the zone is not consulted)
object_valid_actions(current_state) ==
    CASE current_state = "menu"     -> << "CHANGE_BRIGHTNESS", "CHANGE_VOLUME", "CHANGE_COLOR_MODE" >>
      [] current_state = "tutorial" -> << "CHANGE_BRIGHTNESS", "CHANGE_VOLUME", "CHANGE_COLOR_MODE" >>
      [] current_state = "fase1"    -> << "FEED_ANIMAL", "USE_TOOL", "PLACE_OBJECT", "CHANGE_BRIGHTNESS", "CHANGE_VOLUME", "CHANGE_COLOR_MODE" >>
      [] OTHER -> << >>

\* a faulty loop: the first id the table holds runs, whatever names it
\* accepts
first_matching_action_any_name(valid_actions, actions_dict, recognition_name) ==
    IF \E i \in DOMAIN valid_actions : valid_actions[i] \in DOMAIN actions_dict
    THEN valid_actions[CHOOSE i \in DOMAIN valid_actions : valid_actions[i] \in DOMAIN actions_dict /\ \A j \in 1..(i - 1) : valid_actions[j] \notin DOMAIN actions_dict]
    ELSE ""

\* the loop of both handlers: the first id of valid_actions that the table
\* holds and whose names contain the recognition, "" when there is none
first_matching_action(valid_actions, actions_dict, recognition_name) ==
    LET matches(i) == valid_actions[i] \in DOMAIN actions_dict /\ recognition_name \in actions_dict[valid_actions[i]]
    IN  IF \E i \in DOMAIN valid_actions : matches(i)
        THEN valid_actions[CHOOSE i \in DOMAIN valid_actions : matches(i) /\ \A j \in 1..(i - 1) : ~matches(j)]
        ELSE ""

\* the action id execute_action runs for a recognition, "" when none
chosen_action(recognition_name, zone_name, recognition_type, current_state) ==
    IF recognition_type = "gesture"
    THEN first_matching_action(gesture_valid_actions(current_state, zone_name), GESTURE_ACTIONS, recognition_name)
    ELSE IF recognition_type = "object"
    THEN first_matching_action(object_valid_actions(current_state), OBJECT_ACTIONS, recognition_name)
    ELSE ""

\* a faulty _tutorial_previous_cutscene: the first cutscene is not tested
\* for, and TUTORIAL_ORDER[-1] is the last cutscene
tutorial_previous_cutscene_wrapping(S) ==
    IF S.current_game_state \notin TUTORIAL_STATES THEN S
    ELSE IF IndexOf(TUTORIAL_ORDER, S.current_game_state) = 1 THEN switch_state(S, TUTORIAL_ORDER[Len(TUTORIAL_ORDER)])
    ELSE switch_state(S, TUTORIAL_ORDER[IndexOf(TUTORIAL_ORDER, S.current_game_state) - 1])

\* ActionHandler._tutorial_previous_cutscene
tutorial_previous_cutscene(S) ==
    IF S.current_game_state \notin TUTORIAL_STATES THEN S
    ELSE IF IndexOf(TUTORIAL_ORDER, S.current_game_state) = 1 THEN S
    ELSE switch_state(S, TUTORIAL_ORDER[IndexOf(TUTORIAL_ORDER, S.current_game_state) - 1])

\* ActionHandler._tutorial_next_cutscene
tutorial_next_cutscene(S) ==
    IF S.current_game_state \notin TUTORIAL_STATES THEN S
    ELSE IF IndexOf(TUTORIAL_ORDER, S.current_game_state) = Len(TUTORIAL_ORDER) THEN switch_state(S, "fase1")
    ELSE switch_state(S, TUTORIAL_ORDER[IndexOf(TUTORIAL_ORDER, S.current_game_state) + 1])

\* ActionHandler._tutorial_skip
tutorial_skip(S) ==
    IF S.current_game_state \notin TUTORIAL_STATES THEN S ELSE switch_state(S, "fase1")

\* ActionHandler._phase_return_to_tutorial
phase_return_to_tutorial(S) == switch_state(S, TUTORIAL_ORDER[1])

\* ActionHandler._exit_game
exit_game(S) ==
    [S EXCEPT !.controller_running = FALSE, !.stop_camera = TRUE, !.game_running = FALSE]

\* the record of a validate_phase call kept in ret
CallRecord(phase, detected_objects, r) ==
    [called |-> TRUE, phase |-> phase, detected_objects |-> detected_objects, success |-> r.success, message |-> r.message, zone_values |-> r.zone_values, errors |-> r.errors]

\* the lazy load of _execute_game_action: set_current_phase(1) unless phase
\* 1 is the one loaded
load_phase(S) ==
    IF S.current_phase_id # 1
    THEN [S EXCEPT !.current_phase = FASE1_CONFIG, !.current_phase_id = 1, !.last_validation_results = EmptyDict, !.last_validation_errors = <<>>, !.show_results = FALSE]
    ELSE S

\* a faulty store: the table and the errors are kept only for a success
phase_validated_on_success(S, r) ==
    IF r.success
    THEN [S EXCEPT !.zone_values = r.zone_values, !.last_validation_results = r.zone_values, !.last_validation_errors = r.errors, !.show_results = TRUE, !.ret = CallRecord(S.current_phase, S.zone_objects, r)]
    ELSE [S EXCEPT !.zone_values = r.zone_values, !.ret = CallRecord(S.current_phase, S.zone_objects, r)]

\* the objects after validate_phase returned r
phase_validated(S, r) ==
    [S EXCEPT !.zone_values = r.zone_values, !.last_validation_results = r.zone_values, !.last_validation_errors = r.errors, !.show_results = TRUE, !.ret = CallRecord(S.current_phase, S.zone_objects, r)]

\* phase_manager.validate_phase(zone_manager.get_all_zone_objects(),
\* OBJECT_TO_GAME_ELEMENT) of _execute_game_action
validate_loaded_phase(S) ==
    phase_validated(S, validate_phase(S.current_phase, S.zone_objects, OBJECT_TO_GAME_ELEMENT))

\* ActionHandler._execute_game_action
execute_game_action(S) ==
    IF S.current_game_state # "fase1" THEN S ELSE validate_loaded_phase(load_phase(S))

\* a faulty _change_brightness: set_opacity is called without the comparison
change_brightness_unconditional(S, object_name) ==
    IF object_name \in DOMAIN BRIGHTNESS_LEVELS
    THEN [S EXCEPT !.opacity = BRIGHTNESS_LEVELS[object_name], !.writes = @ + 1]
    ELSE S

\* ActionHandler._change_brightness; brightness_overlay.set_opacity keeps
\* the opacity within 0..255
change_brightness(S, object_name) ==
    IF object_name \in DOMAIN BRIGHTNESS_LEVELS /\ S.opacity # BRIGHTNESS_LEVELS[object_name]
    THEN LET opacity == BRIGHTNESS_LEVELS[object_name]
         IN  [S EXCEPT !.opacity = IF opacity < 0 THEN 0 ELSE IF opacity > 255 THEN 255 ELSE opacity,
                       !.writes = @ + 1]
    ELSE S

\* ActionHandler._change_volume; audio_manager.set_volume keeps the volume
\* within 0.0..1.0
change_volume(S, object_name) ==
    IF object_name \in DOMAIN VOLUME_LEVELS /\ S.volume # VOLUME_LEVELS[object_name]
    THEN LET volume == VOLUME_LEVELS[object_name]
         IN  [S EXCEPT !.volume = IF volume < 0 THEN 0 ELSE IF volume > 100 THEN 100 ELSE volume,
                       !.writes = @ + 1]
    ELSE S

\* ActionHandler._change_color_mode; color_filter.set_mode stores one of
\* its two modes and ignores anything else
change_color_mode(S, object_name) ==
    IF object_name \in DOMAIN COLOR_MODES /\ S.color_mode # COLOR_MODES[object_name]
    THEN LET mode == COLOR_MODES[object_name]
         IN  [S EXCEPT !.color_mode = IF mode \in {"color", "grayscale"} THEN mode ELSE @,
                       !.writes = @ + 1]
    ELSE S

\* action.execute(self, ...): the method the action id names
run_action(S, action_key, recognition_name) ==
    CASE action_key = "TUTORIAL_PREVIOUS"      -> tutorial_previous_cutscene(S)
      [] action_key = "TUTORIAL_NEXT"          -> tutorial_next_cutscene(S)
      [] action_key = "TUTORIAL_SKIP"          -> tutorial_skip(S)
      [] action_key = "PHASE_RETURN_TUTORIAL"  -> phase_return_to_tutorial(S)
      [] action_key = "PHASE_REPEAT_NARRATION" -> S
      [] action_key = "PHASE_VALIDATE"         -> execute_game_action(S)
      [] action_key = "EXIT_GAME"              -> exit_game(S)
      [] action_key = "CHANGE_BRIGHTNESS"      -> change_brightness(S, recognition_name)
      [] action_key = "CHANGE_VOLUME"          -> change_volume(S, recognition_name)
      [] action_key = "CHANGE_COLOR_MODE"      -> change_color_mode(S, recognition_name)
      [] OTHER -> S

\* what one execute_action call did: the readings of its clock, whether the
\* cooldown suppressed it, and the action id it ran ("" when none)
Report(recognition_name, zone_name, item_info, recognition_type, checked_at, suppressed, action, registered_at) ==
    [name |-> recognition_name, zone |-> zone_name, item_info |-> item_info, type |-> recognition_type, checked_at |-> checked_at, suppressed |-> suppressed, action |-> action, registered_at |-> registered_at]

\* a faulty return at the cooldown test: the table and the validation
\* results are reset first
suppressed_call_resetting(S, recognition_name, zone_name, item_info, recognition_type, checked_at) ==
    [S |-> [S EXCEPT !.now = checked_at, !.action_cooldown = EmptyDict, !.show_results = FALSE],
     report |-> Report(recognition_name, zone_name, item_info, recognition_type, checked_at, TRUE, "", None)]

\* execute_action returns at the cooldown test
suppressed_call(S, recognition_name, zone_name, item_info, recognition_type, checked_at) ==
    [S |-> [S EXCEPT !.now = checked_at],
     report |-> Report(recognition_name, zone_name, item_info, recognition_type, checked_at, TRUE, "", None)]

\* the end of execute_action: _register_cooldown on the objects the handler
\* left
registered_call(handled, recognition_name, zone_name, item_info, recognition_type, checked_at, action, registered_at) ==
    [S |-> [handled EXCEPT !.now = registered_at, !.action_cooldown = register_cooldown(handled.action_cooldown, recognition_name, zone_name, registered_at)],
     report |-> Report(recognition_name, zone_name, item_info, recognition_type, checked_at, FALSE, action, registered_at)]

\* execute_action past the cooldown test: _add_to_history, the handler of
\* the recognition type, _register_cooldown
dispatched_call(S, recognition_name, zone_name, item_info, recognition_type, action, checked_at, stamped_at, registered_at) ==
    registered_call(
        run_action([S EXCEPT !.recognition_history = add_to_history(S.recognition_history, recognition_name, zone_name, item_info, recognition_type, stamped_at)], action, recognition_name),
        recognition_name, zone_name, item_info, recognition_type, checked_at, action, registered_at)

\* ActionHandler.execute_action; delays[1..3] is the time that passes before
\* each of its clock readings (cooldown test, history, registration)
execute_action(S, recognition_name, zone_name, item_info, recognition_type, delays) ==
    IF is_action_on_cooldown(S.action_cooldown, recognition_name, zone_name, S.now + delays[1])
    THEN suppressed_call(S, recognition_name, zone_name, item_info, recognition_type, S.now + delays[1])
    ELSE dispatched_call(S, recognition_name, zone_name, item_info, recognition_type,
             chosen_action(recognition_name, zone_name, recognition_type, S.current_game_state),
             S.now + delays[1], S.now + delays[1] + delays[2], S.now + delays[1] + delays[2] + delays[3])

\* ------------------------------------------------------------------ state

VARIABLES
    gate_type,                \* the gate created last ("" before any)
    gate_inputs,              \* Gate.inputs of that gate
    gate_result,              \* what its evaluate() returned
    zone_objects,             \* ZoneManager.zone_objects
    current_phase,            \* PhaseManager.current_phase
    last_validation_results,  \* PhaseManager.last_validation_results
    last_validation_errors,   \* PhaseManager.last_validation_errors
    show_results,             \* PhaseManager.show_results
    zone_values,              \* CircuitEvaluator.zone_values
    ret,                      \* the last validate_phase call: arguments and return
    now,                      \* the last reading of time.time()
    action_cooldown,          \* ActionHandler.action_cooldown
    recognition_history,      \* ActionHandler.recognition_history
    current_phase_id,         \* ActionHandler.current_phase_id
    current_game_state,       \* ZoneManager.current_game_state
    current_state,            \* the name of game.state_manager.current_state
    controller_running,       \* GameController.running
    stop_camera,              \* GestureCamera.stop_camera
    game_running,             \* Game.running
    opacity,                  \* game.brightness_overlay.opacity
    volume,                   \* game.audio_manager.current_volume, in hundredths
    color_mode,               \* game.color_filter.current_mode
    recognition_start_times,  \* BaseRecognitionProcessor.recognition_start_times
    validated_recognitions,   \* BaseRecognitionProcessor.validated_recognitions
    has_action_handler,       \* the processor was built with an action handler
    last_frame,               \* the last detection callback: its clock reading and what each entity did
    held_commit,              \* per tracked entity: the time of the last commit of its present track
    changed_at,               \* per entity: the time it was last processed with a changed pair
    dropped_at,               \* per entity: when it was last outside every zone or undetected, and which of the two
    last_call,                \* the report of the last execute_action call
    recorded,                 \* the number of _add_to_history calls so far
    writes,                   \* the set_opacity, set_volume and set_mode calls of the last handler run
    first_ret,                \* what the first validate_phase call returned
    ret_before,               \* what the validate_phase call before the last one returned
    looked_up,                \* the last get_zone_for_point call: the screen shown, the point and the zone returned
    detection_thread,         \* the detection thread inside _execute_game_action: its position and its locals
    render_thread             \* the game thread inside _draw_phase_zone_info: its position and its locals

gateVars == << gate_type, gate_inputs, gate_result >>

phaseVars == << zone_objects, current_phase, last_validation_results, last_validation_errors, show_results, zone_values, ret >>

handlerVars == << now, action_cooldown, recognition_history, current_phase_id, current_game_state, current_state, controller_running, stop_camera, game_running, opacity, volume, color_mode, last_call, recorded, writes >>

processorVars == << recognition_start_times, validated_recognitions, has_action_handler, last_frame, held_commit, changed_at, dropped_at >>

repeatVars == << first_ret, ret_before >>

lookupVars == << looked_up >>

threadVars == << detection_thread, render_thread >>

vars == << gateVars, phaseVars, handlerVars, processorVars, repeatVars, lookupVars, threadVars >>

\* ----------------------------------------------------- state after __init__

\* no gate object exists yet
GateInit ==
    /\ gate_type = ""
    /\ gate_inputs = <<>>
    /\ gate_result = None

\* no validate_phase call yet
NoCall == [called |-> FALSE]

\* PhaseManager.__init__ and CircuitEvaluator.__init__, with an empty zone map
PhaseInit ==
    /\ zone_objects = EmptyDict
    /\ current_phase = NoPhase
    /\ last_validation_results = EmptyDict
    /\ last_validation_errors = <<>>
    /\ show_results = FALSE
    /\ zone_values = EmptyDict
    /\ ret = NoCall

\* no get_zone_for_point call yet
NoLookup == [state |-> "", x |-> 0, y |-> 0, zone |-> Zone(NoZone, {}, {})]

LookupInit == looked_up = NoLookup

\* both threads started by GameController.run are outside the two methods
ThreadInit ==
    /\ detection_thread = [pc |-> "idle", i |-> 0, errors |-> <<>>, detected |-> EmptyDict]
    /\ render_thread = [pc |-> "idle", results |-> EmptyDict, show |-> FALSE, taken |-> FALSE]

\* no validate_phase call to compare with yet
RepeatInit == first_ret = NoCall /\ ret_before = NoCall

\* no execute_action call yet
NoReport == [suppressed |-> FALSE, action |-> "", name |-> ""]

\* ActionHandler.__init__, GameController.__init__ and Game.__init__ (the
\* overlay, the audio manager and the colour filter start at the levels of
\* the default objects, the state manager at "cutscene1"), with the zone
\* manager showing the screen of game_state
HandlerInit(game_state) ==
    /\ now = 0
    /\ action_cooldown = EmptyDict
    /\ recognition_history = <<>>
    /\ current_phase_id = None
    /\ current_game_state = game_state
    /\ current_state = game_state
    /\ controller_running = TRUE
    /\ stop_camera = FALSE
    /\ game_running = TRUE
    /\ opacity = BRIGHTNESS_LEVELS["apple"]
    /\ volume = VOLUME_LEVELS["banana"]
    /\ color_mode = COLOR_MODES["cell phone"]
    /\ last_call = NoReport
    /\ recorded = 0
    /\ writes = 0

\* no detection callback yet
NoFrame == [time |-> None, prev_time |-> None, seen |-> EmptyDict, skipped |-> EmptyDict]

\* BaseRecognitionProcessor.__init__
ProcessorInit(with_action_handler) ==
    /\ recognition_start_times = EmptyDict
    /\ validated_recognitions = EmptyDict
    /\ has_action_handler = with_action_handler
    /\ last_frame = NoFrame
    /\ held_commit = EmptyDict
    /\ changed_at = EmptyDict
    /\ dropped_at = EmptyDict

\* the record S of the objects the action handler works on
World ==
    [now |-> now, action_cooldown |-> action_cooldown, recognition_history |-> recognition_history, current_phase_id |-> current_phase_id, current_game_state |-> current_game_state, zone_objects |-> zone_objects, current_state |-> current_state, controller_running |-> controller_running, stop_camera |-> stop_camera, game_running |-> game_running, opacity |-> opacity, volume |-> volume, color_mode |-> color_mode, writes |-> 0, current_phase |-> current_phase, last_validation_results |-> last_validation_results, last_validation_errors |-> last_validation_errors, show_results |-> show_results, zone_values |-> zone_values, ret |-> ret]

\* the objects are left as in S
SetWorld(S) ==
    /\ now' = S.now
    /\ action_cooldown' = S.action_cooldown
    /\ recognition_history' = S.recognition_history
    /\ current_phase_id' = S.current_phase_id
    /\ current_game_state' = S.current_game_state
    /\ zone_objects' = S.zone_objects
    /\ current_state' = S.current_state
    /\ controller_running' = S.controller_running
    /\ stop_camera' = S.stop_camera
    /\ game_running' = S.game_running
    /\ opacity' = S.opacity
    /\ volume' = S.volume
    /\ color_mode' = S.color_mode
    /\ writes' = S.writes
    /\ current_phase' = S.current_phase
    /\ last_validation_results' = S.last_validation_results
    /\ last_validation_errors' = S.last_validation_errors
    /\ show_results' = S.show_results
    /\ zone_values' = S.zone_values
    /\ ret' = S.ret

\* ------------------------------------------------------ gate specification

\* the values a gate input takes: 0, 1, another integer, None
GateInputValues == {0, 1, 2, None}

\* all lists over S of length at most n
ListsUpTo(S, n) == UNION {[1..k -> S] : k \in 0..n}

\* a gate of the given type is created, its inputs are set, it is evaluated
GateEvaluate(t, inputs) ==
    /\ gate_type' = t
    /\ gate_inputs' = inputs
    /\ gate_result' = gate_evaluate(t, inputs)
    /\ UNCHANGED << phaseVars, handlerVars, processorVars, repeatVars, lookupVars, threadVars >>

GateNext ==
    \E t \in GATE_TYPES, inputs \in ListsUpTo(GateInputValues, MaxGateInputs) : GateEvaluate(t, inputs)

\* no gate yet, beside a game that has just started
GateSpecInit == GateInit /\ PhaseInit /\ HandlerInit("cutscene1") /\ ProcessorInit(FALSE) /\ RepeatInit /\ LookupInit /\ ThreadInit

GateSpec == GateSpecInit /\ [][GateNext]_vars

\* ----------------------------------------------------- phase specification

\* the names of the zones ObjectProcessor._update_zone_objects writes
PHASE_ZONES == {"INPUT1", "INPUT2", "GATE1", "GATE2"}

\* what a phase zone can hold after an object tick: nothing, one of the five
\* mapped labels, or a supported label the game does not map ("cup")
ZoneLabels == {NoObject, "remote", "clock", "orange", "cell phone", "scissors", "cup"}

\* phase configurations with an authoring error, which set_phase accepts like
\* any other: the output zone left out of evaluation_order, a gate ordered
\* before its inputs, an order naming a zone without configuration, an
\* input context without the "eolico" key
MisauthoredConfigs ==
    { [FASE1_CONFIG EXCEPT !.fase_id = 11, !.evaluation_order = <<"INPUT1", "INPUT2", "GATE1">>],
      [FASE1_CONFIG EXCEPT !.fase_id = 12, !.evaluation_order = <<"GATE1", "INPUT1", "INPUT2", "GATE2">>],
      [FASE1_CONFIG EXCEPT !.fase_id = 13, !.evaluation_order = <<"INPUT1", "INPUT2", "GATE1", "GATE3", "GATE2">>],
      [FASE1_CONFIG EXCEPT !.fase_id = 14, !.inputs = [k \in {"solar"} |-> 0]] }

PhaseConfigs == PHASES \cup MisauthoredConfigs

\* a faulty set_phase: the validation state of the phase before is kept
set_phase_keeping(phase_config) ==
    /\ current_phase' = phase_config
    /\ UNCHANGED << zone_objects, zone_values, ret, last_validation_results, last_validation_errors, show_results >>

\* PhaseManager.set_phase(phase_config): load the phase, clear_validation()
set_phase(phase_config) ==
    /\ current_phase' = phase_config
    /\ last_validation_results' = EmptyDict
    /\ last_validation_errors' = <<>>
    /\ show_results' = FALSE
    /\ UNCHANGED << zone_objects, zone_values, ret >>

\* what validate_phase would return if the evaluator kept its table from
\* the pass before
stale_validation(table) ==
    [success |-> Verdict(current_phase, zone_objects, table[1], table[2])[1],
     message |-> Verdict(current_phase, zone_objects, table[1], table[2])[2],
     zone_values |-> table[1],
     errors |-> table[2]]

\* a faulty validate_phase: the evaluator fills the table of the pass before
ValidatePhase_stale ==
    IF current_phase = NoPhase
    THEN /\ ret' = [called |-> TRUE, phase |-> NoPhase, detected_objects |-> zone_objects, success |-> FALSE, message |-> "Nenhuma fase configurada", zone_values |-> EmptyDict, errors |-> <<>>]
         /\ UNCHANGED << zone_objects, current_phase, last_validation_results, last_validation_errors, show_results, zone_values >>
    ELSE \E S \in {phase_validated(World, stale_validation(EvaluateFrom(1, current_phase.zones, zone_objects, current_phase.inputs, OBJECT_TO_GAME_ELEMENT, current_phase.evaluation_order, << zone_values, <<>> >>)))} :
             /\ zone_values' = S.zone_values
             /\ last_validation_results' = S.last_validation_results
             /\ last_validation_errors' = S.last_validation_errors
             /\ show_results' = S.show_results
             /\ ret' = S.ret
             /\ UNCHANGED << zone_objects, current_phase >>

\* PhaseManager.validate_phase(zone_manager.get_all_zone_objects(),
\* OBJECT_TO_GAME_ELEMENT), with or without a phase loaded
ValidatePhase ==
    IF current_phase = NoPhase
    THEN /\ ret' = [called |-> TRUE, phase |-> NoPhase, detected_objects |-> zone_objects, success |-> FALSE, message |-> "Nenhuma fase configurada", zone_values |-> EmptyDict, errors |-> <<>>]
         /\ UNCHANGED << zone_objects, current_phase, last_validation_results, last_validation_errors, show_results, zone_values >>
    ELSE \E S \in {phase_validated(World, validate_phase(current_phase, zone_objects, OBJECT_TO_GAME_ELEMENT))} :
             /\ zone_values' = S.zone_values
             /\ last_validation_results' = S.last_validation_results
             /\ last_validation_errors' = S.last_validation_errors
             /\ show_results' = S.show_results
             /\ ret' = S.ret
             /\ UNCHANGED << zone_objects, current_phase >>

\* the zone map an object tick in fase1 has left: one label or None per zone
PhaseManagerInit ==
    /\ zone_objects \in [PHASE_ZONES -> ZoneLabels]
    /\ current_phase = NoPhase
    /\ last_validation_results = EmptyDict
    /\ last_validation_errors = <<>>
    /\ show_results = FALSE
    /\ zone_values = EmptyDict
    /\ ret = NoCall

PhaseNext ==
    \/ \E c \in PhaseConfigs : set_phase(c) /\ UNCHANGED << gateVars, handlerVars, processorVars, repeatVars, lookupVars, threadVars >>
    \/ ValidatePhase /\ UNCHANGED << gateVars, handlerVars, processorVars, repeatVars, lookupVars, threadVars >>

\* a new phase manager beside a game showing fase1
PhaseSpecInit == GateInit /\ PhaseManagerInit /\ HandlerInit("fase1") /\ ProcessorInit(FALSE) /\ RepeatInit /\ LookupInit /\ ThreadInit

PhaseSpec == PhaseSpecInit /\ [][PhaseNext]_vars

\* ------------------------------------------ specification: evaluation order

\* Fase 1 as registered, with the output zone left out of evaluation_order,
\* and with GATE1 listed twice, before and after its inputs; validate_phase
\* runs on any of them
OrderNext ==
    \/ \E c \in { FASE1_CONFIG,
                  [FASE1_CONFIG EXCEPT !.fase_id = 11, !.evaluation_order = <<"INPUT1", "INPUT2", "GATE1">>],
                  [FASE1_CONFIG EXCEPT !.fase_id = 15, !.evaluation_order = <<"GATE1", "INPUT1", "INPUT2", "GATE1", "GATE2">>] } :
           set_phase(c) /\ UNCHANGED << gateVars, handlerVars, processorVars, repeatVars, lookupVars, threadVars >>
    \/ ValidatePhase /\ UNCHANGED << gateVars, handlerVars, processorVars, repeatVars, lookupVars, threadVars >>

OrderSpec == PhaseSpecInit /\ [][OrderNext]_vars
\* ------------------------------------------------------- object processor

\* the latest clock reading of a run
MaxTime == 6

\* the longest time between two detection callbacks
MaxStep == 2

\* the longest time that passes before a clock reading of execute_action
MaxDelay == 1

\* phase_zones of _update_zone_objects
phase_zones == {"INPUT1", "INPUT2", "GATE1", "GATE2"}

\* the smallest index of a non-empty set of result indices
MinIndex(indices) == CHOOSE i \in indices : \A j \in indices : i <= j

\* no track (Python: item_key not in recognition_start_times)
NoTrack == [name |-> "", zone |-> NoZone, start_time |-> None]

\* what the callback did with one entity: the pair it was seen with, its
\* track and the last commit of that track before the call, the number of
\* _execute_validated_recognition calls, whether execute_action was called
\* and its report
Seen(detection, before, held, fired, dispatched, report) ==
    [name |-> detection.name, zone |-> detection.zone,
     confidence |-> IF "confidence" \in DOMAIN detection THEN detection.confidence ELSE 0,
     before |-> before, held |-> held, fired |-> fired, dispatched |-> dispatched, report |-> report]

\* execute_action was not called
not_called(S) == [S |-> S, called |-> FALSE, report |-> NoReport]

\* execute_action was called and returned done
called(done) == [S |-> done.S, called |-> TRUE, report |-> done.report]

\* BaseRecognitionProcessor._execute_validated_recognition on the objects S:
\* the objects after the call, whether execute_action was called, its report
execute_validated_recognition(S, recognition_name, zone_name, item_key, recognition_type, with_action_handler, delays) ==
    IF with_action_handler /\ legal_for_zone(S.current_game_state, recognition_name, zone_name, recognition_type)
    THEN called(execute_action(S, recognition_name, zone_name, item_key, recognition_type, delays))
    ELSE not_called(S)

\* zone_object_tracking[zone_name].append({...})
track_zone_object(zone_object_tracking, zone_name, object_name, confidence, object_key) ==
    IF zone_name = NoZone
    THEN zone_object_tracking
    ELSE Put(zone_object_tracking, zone_name, Append(IF zone_name \in DOMAIN zone_object_tracking THEN zone_object_tracking[zone_name] ELSE <<>>, [name |-> object_name, confidence |-> confidence, key |-> object_key]))

\* one pass of the loop of _process_detected_objects, after
\* _process_recognition_validation returned out and the commit, if any, ended
\* as ex: acc holds the tracking state P, the objects S,
\* zone_object_tracking, currently_detected_objects, what was seen and the
\* report of the last execute_action call
visited(acc, detection, object_key, out, ex) ==
    [P |-> out.P,
     S |-> ex.S,
     zone_object_tracking |-> track_zone_object(acc.zone_object_tracking, detection.zone, detection.name, detection.confidence, object_key),
     currently_detected_objects |-> acc.currently_detected_objects \cup {object_key},
     seen |-> Put(acc.seen, object_key,
                  Seen(detection,
                       IF object_key \in DOMAIN acc.P.starts THEN acc.P.starts[object_key] ELSE NoTrack,
                       IF object_key \in DOMAIN held_commit THEN held_commit[object_key] ELSE None,
                       IF out.fire THEN 1 ELSE 0, ex.called, ex.report)),
     last_call |-> IF ex.called THEN ex.report ELSE acc.last_call]

\* the commit of one pass: _execute_validated_recognition when
\* _process_recognition_validation fired
commit_detection(acc, detection, object_key, out, with_action_handler, delays) ==
    visited(acc, detection, object_key, out,
            IF out.fire
            THEN execute_validated_recognition(acc.S, detection.name, detection.zone, object_key, "object", with_action_handler, delays)
            ELSE not_called(acc.S))

\* one pass of the loop of _process_detected_objects
process_detection(acc, detection, object_key, current_time, with_action_handler, delays) ==
    commit_detection(acc, detection, object_key,
                     process_recognition_validation(acc.P, detection.name, detection.zone, object_key, current_time),
                     with_action_handler, delays)

\* the loop of _process_detected_objects over the result indices not yet
\* visited, in increasing order
RECURSIVE ProcessDetections(_, _, _, _, _, _)
ProcessDetections(result, indices, current_time, with_action_handler, delays, acc) ==
    IF indices = {}
    THEN acc
    ELSE ProcessDetections(result, indices \ {MinIndex(indices)}, current_time, with_action_handler, delays,
             process_detection(acc, result[MinIndex(indices)], ObjectKey(result[MinIndex(indices)].name, MinIndex(indices)),
                               current_time, with_action_handler, delays[MinIndex(indices)]))

\* a faulty choice: the first object of the zone, whatever its confidence
best_object_first(objects) == objects[1].name

\* max(objects, key=confidence)["name"]: the first object of the highest
\* confidence
best_object(objects) ==
    LET i == CHOOSE j \in DOMAIN objects :
                 /\ \A k \in DOMAIN objects : objects[k].confidence <= objects[j].confidence
                 /\ \A k \in 1..(j - 1) : objects[k].confidence < objects[j].confidence
    IN  objects[i].name

\* ObjectProcessor._update_zone_objects
update_zone_objects(S, zone_object_tracking) ==
    LET zones == get_current_zones(S.current_game_state)
        written == {zones[i].name : i \in DOMAIN zones} \cap phase_zones
    IN  [S EXCEPT !.zone_objects =
            [z \in (DOMAIN S.zone_objects) \cup written |->
                IF z \notin written THEN S.zone_objects[z]
                ELSE IF z \in DOMAIN zone_object_tracking THEN best_object(zone_object_tracking[z])
                ELSE NoObject]]

\* the time of the last commit of the present track of each tracked entity
\* after a callback: the callback's time if the entity committed in it, the
\* earlier one if its track is the one it had, none for a new track
HeldAfter(starts, seen, current_time) ==
    [k \in DOMAIN starts |->
        IF k \in DOMAIN seen /\ seen[k].fired > 0 THEN current_time
        ELSE IF k \in DOMAIN seen /\ seen[k].before = starts[k] THEN seen[k].held
        ELSE None]

\* the entities of a callback processed with a pair other than the tracked one
Changed(seen) ==
    {k \in DOMAIN seen : seen[k].zone # NoZone /\ seen[k].before # NoTrack /\ << seen[k].before.name, seen[k].before.zone >> # << seen[k].name, seen[k].zone >>}

\* SUPPORTED_OBJECTS
SUPPORTED_OBJECTS ==
    {"cup", "fork", "knife", "spoon", "banana", "apple", "orange", "broccoli", "carrot", "mouse", "remote", "cell phone", "clock", "toothbrush", "scissors"}

\* MIN_OBJECT_DETECTION_CONFIDENCE, in hundredths (0.3 is 30)
MIN_OBJECT_DETECTION_CONFIDENCE == 30

\* the detections the loop of _process_detected_objects does not skip: a
\* supported label and a confidence not below the minimum
processed_detections(result) ==
    Restrict(result, {i \in DOMAIN result : result[i].name \in SUPPORTED_OBJECTS /\ result[i].confidence >= MIN_OBJECT_DETECTION_CONFIDENCE})

\* ObjectProcessor._process_detected_objects: result maps the indices of the
\* detections to their label, zone and confidence; dt is the time since the
\* last clock reading
process_detected_objects(raw_result, dt, delays) ==
    \E result \in {processed_detections(raw_result)} :
    LET current_time == now + dt
        start == [P |-> Tracking(recognition_start_times, validated_recognitions),
                  S |-> [World EXCEPT !.now = current_time],
                  zone_object_tracking |-> EmptyDict,
                  currently_detected_objects |-> {},
                  seen |-> EmptyDict,
                  last_call |-> last_call]
    IN  /\ current_time <= MaxTime
        /\ \E looped \in {ProcessDetections(result, DOMAIN result, current_time, has_action_handler, delays, start)} :
           \E S \in {update_zone_objects(looped.S, looped.zone_object_tracking)} :
           \E P \in {cleanup_undetected_items(looped.P, looped.currently_detected_objects)} :
               /\ S.now <= MaxTime
               /\ \A i \in (DOMAIN raw_result) \ (DOMAIN result) : delays[i] = << 0, 0, 0 >>
               /\ \A i \in DOMAIN result :
                      LET e == looped.seen[ObjectKey(result[i].name, i)]
                      IN  /\ ~e.dispatched => delays[i] = << 0, 0, 0 >>
                          /\ (e.dispatched /\ e.report.suppressed) => (delays[i][2] = 0 /\ delays[i][3] = 0)
               /\ SetWorld(S)
               /\ recognition_start_times' = P.starts
               /\ validated_recognitions' = P.validated
               /\ last_frame' = [time |-> current_time, prev_time |-> last_frame.time, seen |-> looped.seen,
                                 skipped |-> Restrict(raw_result, (DOMAIN raw_result) \ (DOMAIN result))]
               /\ held_commit' = HeldAfter(P.starts, looped.seen, current_time)
               /\ changed_at' = [k \in (DOMAIN changed_at) \cup Changed(looped.seen) |-> IF k \in Changed(looped.seen) THEN current_time ELSE changed_at[k]]
               /\ dropped_at' = [k \in (DOMAIN dropped_at) \cup {j \in DOMAIN looped.seen : looped.seen[j].zone = NoZone} \cup ((DOMAIN looped.P.starts) \ looped.currently_detected_objects) |->
                                    IF k \in DOMAIN looped.seen /\ looped.seen[k].zone # NoZone THEN dropped_at[k] ELSE [time |-> current_time, detected |-> k \in DOMAIN looped.seen]]
               /\ last_call' = looped.last_call
               /\ recorded' = recorded + Cardinality({k \in DOMAIN looped.seen : looped.seen[k].dispatched /\ ~looped.seen[k].report.suppressed})
               /\ UNCHANGED << gateVars, has_action_handler, repeatVars, lookupVars, threadVars >>

\* the results of the detector: a supported detection or none at each index
\* of indices, each in a zone of the screen or outside every zone
Results(indices, names, zone_names) ==
    UNION {[chosen -> [name : names, zone : zone_names \cup {NoZone}, confidence : {50}]] : chosen \in SUBSET indices}

\* the delays of the clock readings of the dispatches of a callback
Delays(indices, with_action_handler) ==
    [indices -> [1..3 -> IF with_action_handler THEN 0..MaxDelay ELSE {0}]]

\* ------------------------------------------- specification: the validator

\* the result indices at which the detector reports a supported object; at
\* the other indices it reports labels the loop skips
RecIndices == {1, 10}

\* the labels and the zones of the detections
RecNames == {"clock"}

RecZones == {"INPUT1", "INPUT2"}

\* an ObjectProcessor with a zone manager showing fase1 and no action handler
RecInit == GateInit /\ PhaseInit /\ HandlerInit("fase1") /\ ProcessorInit(FALSE) /\ RepeatInit /\ LookupInit /\ ThreadInit

\* a detection callback
RecNext ==
    \E result \in Results(RecIndices, RecNames, RecZones), dt \in 1..MaxStep :
        \E delays \in Delays(DOMAIN result, has_action_handler) : process_detected_objects(result, dt, delays)

RecSpec == RecInit /\ [][RecNext]_vars

\* -------------------------------------------- specification: the pipeline

\* an ObjectProcessor with a zone manager showing fase1 and an action handler
PipeInit == GateInit /\ PhaseInit /\ HandlerInit("fase1") /\ ProcessorInit(TRUE) /\ RepeatInit /\ LookupInit /\ ThreadInit

\* Fase1State.draw -> _draw_phase_zone_info. wired: the game object has a
\* game_controller whose camera has an action handler (no assignment of
\* game.game_controller exists in main.py or game.py: the method tests for
\* it and returns when it is missing). When it is there, the method loads
\* phase 1 unless it is the loaded one, then reads the phase, copies of the
\* zone objects and of the validation results, and the show_results flag
draw_phase_zone_info(wired) ==
    /\ current_state = "fase1"
    /\ \E S \in {IF wired THEN load_phase(World) ELSE World} : SetWorld(S)
    /\ UNCHANGED << last_call, recorded, gateVars, processorVars, repeatVars, lookupVars, threadVars >>

\* a detection callback with one entity, at the first index of the result,
\* or a frame drawn by the game loop
PipeNext ==
    \/ \E result \in Results({0}, RecNames, RecZones), dt \in 1..MaxStep :
           \E delays \in Delays(DOMAIN result, has_action_handler) : process_detected_objects(result, dt, delays)
    \/ \E wired \in BOOLEAN : draw_phase_zone_info(wired)

PipeSpec == PipeInit /\ [][PipeNext]_vars

\* ------------------------------------------------- specification: dispatch

\* hand_key = f"{hand_info}_hand"
HandKey(hand_info) == << hand_info, "_", "hand" >>

\* a call of execute_action: its four arguments
Call(recognition_name, zone_name, item_info, recognition_type) ==
    [name |-> recognition_name, zone |-> zone_name, item_info |-> item_info, type |-> recognition_type]

\* the calls made: one gesture in the right zone from a hand and from an
\* object entity, and the same gesture from the hand in the left zone
DispatchCalls ==
    { Call("Victory", "GESTOS_DIREITA", HandKey("Left"), "gesture"),
      Call("Victory", "GESTOS_DIREITA", ObjectKey("clock", 0), "object"),
      Call("Victory", "GESTOS_ESQUERDA", HandKey("Left"), "gesture") }

\* action_handler.execute_action(name, zone, item_info, type), returning
\* no later than time horizon
ExecuteAction(call, delays, horizon) ==
    /\ now + delays[1] <= horizon
    /\ \E done \in {execute_action(World, call.name, call.zone, call.item_info, call.type, delays)} :
        /\ done.S.now <= horizon
        /\ done.report.suppressed => (delays[2] = 0 /\ delays[3] = 0)
        /\ SetWorld(done.S)
        /\ last_call' = done.report
        /\ recorded' = IF done.report.suppressed THEN recorded ELSE recorded + 1
        /\ UNCHANGED << gateVars, processorVars, repeatVars, lookupVars, threadVars >>

DispatchInit == GateInit /\ PhaseInit /\ HandlerInit("cutscene1") /\ ProcessorInit(TRUE) /\ RepeatInit /\ LookupInit /\ ThreadInit

DispatchNext == \E call \in DispatchCalls, delays \in (0..MaxStep) \X {0} \X (0..MaxDelay) : ExecuteAction(call, delays, MaxTime)

DispatchSpec == DispatchInit /\ [][DispatchNext]_vars

\* --------------------------------------------------- specification: commits

\* the commits fired: a gesture of a hand or an object, in a zone of some
\* screen; the screen shown when the commit fires may have the zone or not,
\* and the zone may accept the name or not
CommitCalls ==
    { Call("Closed_Fist", "GESTOS_DIREITA", HandKey("Left"), "gesture"),
      Call("clock", "INPUT1", ObjectKey("clock", 0), "object"),
      Call("clock", "GATE1", ObjectKey("clock", 0), "object"),
      Call("clock", "COR", ObjectKey("clock", 0), "object") }

\* self._execute_validated_recognition(name, zone, item_key) of a processor
\* of the call's recognition type, built with both managers
ExecuteValidated(call, delays) ==
    \E ex \in {execute_validated_recognition(World, call.name, call.zone, call.item_info, call.type, has_action_handler, delays)} :
        /\ ex.S.now <= MaxTime
        /\ ~ex.called => delays = << 0, 0, 0 >>
        /\ (ex.called /\ ex.report.suppressed) => (delays[2] = 0 /\ delays[3] = 0)
        /\ SetWorld(ex.S)
        /\ last_call' = IF ex.called THEN ex.report ELSE last_call
        /\ recorded' = IF ex.called /\ ~ex.report.suppressed THEN recorded + 1 ELSE recorded
        /\ last_frame' = [time |-> now, prev_time |-> last_frame.time,
                          seen |-> Put(EmptyDict, call.item_info, Seen(call, NoTrack, None, 1, ex.called, ex.report)),
                          skipped |-> EmptyDict]
        /\ UNCHANGED << gateVars, recognition_start_times, validated_recognitions, has_action_handler, held_commit, changed_at, dropped_at, repeatVars, lookupVars, threadVars >>

\* a game that has just started, the processors built with both managers
CommitInit == GateInit /\ PhaseInit /\ HandlerInit("cutscene1") /\ ProcessorInit(TRUE) /\ RepeatInit /\ LookupInit /\ ThreadInit

CommitNext == \E call \in CommitCalls, delays \in (0..MaxStep) \X {0} \X {0} : ExecuteValidated(call, delays)

CommitSpec == CommitInit /\ [][CommitNext]_vars

\* ---------------------------------------------- specification: object ticks

\* the phase screen shown, both processors built with both managers
TickInit == GateInit /\ PhaseInit /\ HandlerInit("fase1") /\ ProcessorInit(TRUE) /\ RepeatInit /\ LookupInit /\ ThreadInit

\* a detection callback of the object detector, longer than the dwell after
\* the one before, with up to two supported objects, one the zones accept
\* ("clock") or not ("orange"), of a confidence below the minimum or not,
\* in an input zone of the phase screen; or a held gesture of a hand
\* that commits: validate, return to the tutorial, skip the tutorial
TickNext ==
    \/ \E chosen \in SUBSET {0, 1}, dt \in {MaxStep + 1} :
       \E result \in [chosen -> [name : {"clock", "orange"}, zone : {"INPUT1"}, confidence : {MIN_OBJECT_DETECTION_CONFIDENCE - 10, 50, 60}]] :
           process_detected_objects(result, dt, [i \in chosen |-> << 0, 0, 0 >>])
    \/ \E call \in { Call("Open_Palm", "GESTOS_DIREITA", HandKey("Left"), "gesture"),
                     Call("Victory", "GESTOS_ESQUERDA", HandKey("Left"), "gesture"),
                     Call("Closed_Fist", "GESTOS_DIREITA", HandKey("Left"), "gesture") },
          delays \in {<< 0, 0, 0 >>} :
           ExecuteValidated(call, delays)

TickSpec == TickInit /\ [][TickNext]_vars
\* ------------------------------------- specification: repeated validation

\* a validate_phase call; the result of the first call and that of the call
\* before it are kept
ValidateAgain ==
    /\ ValidatePhase
    /\ first_ret' = IF first_ret.called THEN first_ret ELSE ret'
    /\ ret_before' = ret
    /\ UNCHANGED << gateVars, handlerVars, processorVars, lookupVars, threadVars >>

\* a new phase manager beside a game showing fase1, each zone empty or
\* holding one of the sources, the AND gate or the NOT gate
RepeatSpecInit ==
    /\ PhaseSpecInit
    /\ \A z \in PHASE_ZONES : zone_objects[z] \in {NoObject, "remote", "clock", "orange", "scissors"}

\* the manager is given, in turn, the registered first phase, the phase
\* whose order leaves out the output zone and the one that orders a gate
\* before its inputs
RepeatNext ==
    \/ \E c \in {p \in PhaseConfigs : p.fase_id \in {1, 11, 12}} : set_phase(c) /\ UNCHANGED << gateVars, handlerVars, processorVars, repeatVars, lookupVars, threadVars >>
    \/ ValidateAgain

RepeatSpec == RepeatSpecInit /\ [][RepeatNext]_vars

\* ----------------------------------------------- specification: two threads

\* the positions of the lazy phase load
LoadPcs == {"set_phase", "load_results", "load_errors", "load_show", "set_id"}

\* one statement of the lazy load of phase 1 at position pc, the same in
\* _execute_game_action and in set_current_phase: set_phase assigns the
\* phase and runs the three assignments of clear_validation, then
\* current_phase_id is assigned; S is left as the statement leaves the
\* objects, pc is the position after it
load_statement(S, pc) ==
    CASE pc = "set_phase"    -> [S |-> [S EXCEPT !.current_phase = FASE1_CONFIG], pc |-> "load_results"]
      [] pc = "load_results" -> [S |-> [S EXCEPT !.last_validation_results = EmptyDict], pc |-> "load_errors"]
      [] pc = "load_errors"  -> [S |-> [S EXCEPT !.last_validation_errors = <<>>], pc |-> "load_show"]
      [] pc = "load_show"    -> [S |-> [S EXCEPT !.show_results = FALSE], pc |-> "set_id"]
      [] pc = "set_id"       -> [S |-> [S EXCEPT !.current_phase_id = 1], pc |-> "loaded"]

\* a faulty loop body: the value is also written to the stored results
store_zone_value_published(S, table) ==
    [S EXCEPT !.zone_values = table, !.last_validation_results = table]

\* self.zone_values[zone_name] = value of the loop of evaluate_circuit
store_zone_value(S, table) == [S EXCEPT !.zone_values = table]

\* one statement of _execute_game_action in fase1, validate_phase and
\* evaluate_circuit inlined, run by the detection thread at position T.pc
\* with the locals of T (detected: the copy of the zone map, errors, i: the
\* position in evaluation_order). self.zone_values = {} binds a new table,
\* so the table stored by the pass before is not written again
detection_statement(S, T) ==
    CASE T.pc = "idle" ->
             [S |-> S, T |-> [T EXCEPT !.pc = IF S.current_phase_id # 1 THEN "set_phase" ELSE "get_objects"]]
      [] T.pc \in LoadPcs ->
             [S |-> load_statement(S, T.pc).S,
              T |-> [T EXCEPT !.pc = IF load_statement(S, T.pc).pc = "loaded" THEN "get_objects" ELSE load_statement(S, T.pc).pc]]
      [] T.pc = "get_objects" ->
             [S |-> S, T |-> [T EXCEPT !.pc = "clear_results", !.detected = S.zone_objects]]
      [] T.pc = "clear_results" ->
             [S |-> [S EXCEPT !.last_validation_results = EmptyDict], T |-> [T EXCEPT !.pc = "clear_errors"]]
      [] T.pc = "clear_errors" ->
             [S |-> [S EXCEPT !.last_validation_errors = <<>>], T |-> [T EXCEPT !.pc = "clear_show"]]
      [] T.pc = "clear_show" ->
             [S |-> [S EXCEPT !.show_results = FALSE], T |-> [T EXCEPT !.pc = "reset_table"]]
      [] T.pc = "reset_table" ->
             [S |-> [S EXCEPT !.zone_values = EmptyDict],
              T |-> [T EXCEPT !.errors = <<>>, !.i = 1,
                              !.pc = IF Len(S.current_phase.evaluation_order) = 0 THEN "store_results" ELSE "zone"]]
      [] T.pc = "zone" ->
             LET acc == EvaluateFrom(T.i, S.current_phase.zones, T.detected, S.current_phase.inputs, OBJECT_TO_GAME_ELEMENT,
                                     SubSeq(S.current_phase.evaluation_order, 1, T.i), << S.zone_values, T.errors >>)
             IN  [S |-> store_zone_value(S, acc[1]),
                  T |-> [T EXCEPT !.errors = acc[2], !.i = T.i + 1,
                                  !.pc = IF T.i = Len(S.current_phase.evaluation_order) THEN "store_results" ELSE "zone"]]
      [] T.pc = "store_results" ->
             [S |-> [S EXCEPT !.last_validation_results = S.zone_values], T |-> [T EXCEPT !.pc = "store_errors"]]
      [] T.pc = "store_errors" ->
             [S |-> [S EXCEPT !.last_validation_errors = T.errors], T |-> [T EXCEPT !.pc = "store_show"]]
      [] T.pc = "store_show" ->
             [S |-> [S EXCEPT !.show_results = TRUE,
                              !.ret = CallRecord(S.current_phase, T.detected,
                                                 [success |-> Verdict(S.current_phase, T.detected, S.zone_values, T.errors)[1],
                                                  message |-> Verdict(S.current_phase, T.detected, S.zone_values, T.errors)[2],
                                                  zone_values |-> S.zone_values, errors |-> T.errors])],
              T |-> [pc |-> "idle", i |-> 0, errors |-> <<>>, detected |-> EmptyDict]]

\* one statement of _draw_phase_zone_info past its wiring tests, run by the
\* game thread at position T.pc: the lazy load, then the copy of the results
\* and the flag it draws from
render_statement(S, T) ==
    CASE T.pc = "idle" ->
             [S |-> S, T |-> [T EXCEPT !.pc = IF S.current_phase_id # 1 THEN "set_phase" ELSE "read_results"]]
      [] T.pc \in LoadPcs ->
             [S |-> load_statement(S, T.pc).S,
              T |-> [T EXCEPT !.pc = IF load_statement(S, T.pc).pc = "loaded" THEN "read_results" ELSE load_statement(S, T.pc).pc]]
      [] T.pc = "read_results" ->
             [S |-> S, T |-> [T EXCEPT !.pc = "read_show", !.results = S.last_validation_results]]
      [] T.pc = "read_show" ->
             [S |-> S, T |-> [T EXCEPT !.pc = "idle", !.show = S.show_results, !.taken = TRUE]]

\* the detection thread runs its next statement; it enters
\* _execute_game_action (a committed Open_Palm in GESTOS_DIREITA) in fase1
DetectionStep ==
    /\ detection_thread.pc = "idle" => current_game_state = "fase1"
    /\ \E r \in {detection_statement(World, detection_thread)} :
           /\ SetWorld(r.S)
           /\ detection_thread' = r.T
    /\ UNCHANGED << last_call, recorded, gateVars, processorVars, repeatVars, lookupVars, render_thread >>

\* the game thread runs its next statement; it enters _draw_phase_zone_info
\* when fase1 is drawn, and goes past the wiring tests when the game object
\* has a game_controller
RenderStep(wired) ==
    /\ render_thread.pc = "idle" => current_state = "fase1"
    /\ \E r \in {IF wired \/ render_thread.pc # "idle" THEN render_statement(World, render_thread) ELSE [S |-> World, T |-> render_thread]} :
           /\ SetWorld(r.S)
           /\ render_thread' = r.T
    /\ UNCHANGED << last_call, recorded, gateVars, processorVars, repeatVars, lookupVars, detection_thread >>

\* fase1 shown, no phase loaded yet, the zone map as an object tick left it
RaceInit ==
    /\ GateInit /\ HandlerInit("fase1") /\ ProcessorInit(TRUE) /\ RepeatInit /\ LookupInit /\ ThreadInit
    /\ zone_objects \in [PHASE_ZONES -> {NoObject, "clock", "orange", "scissors"}]
    /\ current_phase = NoPhase
    /\ last_validation_results = EmptyDict
    /\ last_validation_errors = <<>>
    /\ show_results = FALSE
    /\ zone_values = EmptyDict
    /\ ret = NoCall

RaceNext ==
    \/ DetectionStep
    \/ \E wired \in BOOLEAN : RenderStep(wired)

RaceSpec == RaceInit /\ [][RaceNext]_vars
\* -------------------------------------------------- specification: changers

\* a call in fase1 with an object its zones accept for the volume or for
\* the colour mode, or with an object of the brightness table
ChangerNext ==
    \E call \in { Call("cup", "BRILHO", ObjectKey("cup", 0), "object"),
                  Call("toothbrush", "GATE1", ObjectKey("toothbrush", 0), "object"),
                  Call("clock", "INPUT1", ObjectKey("clock", 0), "object") },
       step \in 0..MaxStep :
        ExecuteAction(call, << step, 0, 0 >>, MaxTime)

ChangerSpec == PipeInit /\ [][ChangerNext]_vars

\* ------------------------------------------- specification: a held gesture

\* one tick of a recognition processor of type "gesture" for the left hand:
\* _process_recognition_validation of the hand with the gesture and the zone
\* it is seen in, and _execute_validated_recognition when it commits; dt is
\* the time since the last clock reading
process_hand(gesture_name, zone_name, dt, delays, horizon) ==
    /\ now + dt <= horizon
    /\ \E out \in {process_recognition_validation(Tracking(recognition_start_times, validated_recognitions), gesture_name, zone_name, HandKey("Left"), now + dt)} :
       \E ex \in {IF out.fire
                  THEN execute_validated_recognition([World EXCEPT !.now = now + dt], gesture_name, zone_name, HandKey("Left"), "gesture", has_action_handler, delays)
                  ELSE not_called([World EXCEPT !.now = now + dt])} :
       \E seen \in {Put(EmptyDict, HandKey("Left"),
                        Seen([name |-> gesture_name, zone |-> zone_name],
                             IF HandKey("Left") \in DOMAIN recognition_start_times THEN recognition_start_times[HandKey("Left")] ELSE NoTrack,
                             IF HandKey("Left") \in DOMAIN held_commit THEN held_commit[HandKey("Left")] ELSE None,
                             IF out.fire THEN 1 ELSE 0, ex.called, ex.report))} :
           /\ ex.S.now <= horizon
           /\ ~ex.called => delays = << 0, 0, 0 >>
           /\ (ex.called /\ ex.report.suppressed) => (delays[2] = 0 /\ delays[3] = 0)
           /\ SetWorld(ex.S)
           /\ recognition_start_times' = out.P.starts
           /\ validated_recognitions' = out.P.validated
           /\ last_frame' = [time |-> now + dt, prev_time |-> last_frame.time, seen |-> seen, skipped |-> EmptyDict]
           /\ held_commit' = HeldAfter(out.P.starts, seen, now + dt)
           /\ last_call' = IF ex.called THEN ex.report ELSE last_call
           /\ recorded' = IF ex.called /\ ~ex.report.suppressed THEN recorded + 1 ELSE recorded
           /\ UNCHANGED << gateVars, has_action_handler, changed_at, dropped_at, repeatVars, lookupVars, threadVars >>

\* the hand shows Victory in the right gesture zone or outside every zone,
\* from the first cutscene on; the clock runs long enough for six commits
HoldNext ==
    \E zone_name \in {"GESTOS_DIREITA", NoZone}, dt \in 1..MaxStep, delays \in (0..MaxDelay) \X (0..MaxDelay) \X (0..MaxDelay) :
        process_hand("Victory", zone_name, dt, delays, 3 * MaxTime)

HoldSpec == CommitInit /\ [][HoldNext]_vars
\* ------------------------------------------------ specification: navigation

\* a gesture of a hand that moves through the tutorial or back from the
\* phase ("Victory" in the right or in the left zone, "Closed_Fist" in the
\* right zone), made at once or a cooldown later, within the time the whole
\* tutorial and the way back take
NavNext ==
    \E call \in { Call("Victory", "GESTOS_DIREITA", HandKey("Left"), "gesture"),
                  Call("Victory", "GESTOS_ESQUERDA", HandKey("Left"), "gesture"),
                  Call("Closed_Fist", "GESTOS_DIREITA", HandKey("Left"), "gesture") },
       step \in {0, ACTION_COOLDOWN_TIME} :
        ExecuteAction(call, << step, 0, 0 >>, 2 * MaxTime)

NavSpec == DispatchInit /\ [][NavNext]_vars

\* ---------------------------------------------------- specification: lookup

\* ObjectProcessor._detect_object_zone for a bounding box with centre (x, y)
detect_object_zone(x, y) ==
    /\ looked_up' = [state |-> current_game_state, x |-> x, y |-> y, zone |-> get_zone_for_point(current_game_state, x, y)]
    /\ UNCHANGED << gateVars, phaseVars, handlerVars, processorVars, repeatVars, threadVars >>

\* fade_duration of CutsceneBase.__init__, in milliseconds
fade_duration == 1000

\* next_state of each cutscene, as passed to CutsceneBase.__init__
NEXT_STATE ==
    [cutscene1 |-> "cutscene2", cutscene2 |-> "cutscene3", cutscene3 |-> "cutscene4_tutorial",
     cutscene4_tutorial |-> "cutscene5_tutorial_pratico", cutscene5_tutorial_pratico |-> "cutscene6_inicio_missoes",
     cutscene6_inicio_missoes |-> "fase1"]

\* CutsceneBase.update of the cutscene shown, run by the game loop: fading_out
\* is the flag a key or mouse event sets once the text is complete, elapsed
\* the milliseconds since the fade started
cutscene_update(fading_out, elapsed) ==
    /\ current_state \in DOMAIN NEXT_STATE
    /\ LET fade_alpha == IF (elapsed * 255) \div fade_duration < 255 THEN (elapsed * 255) \div fade_duration ELSE 255
       IN  current_state' = IF fading_out /\ fade_alpha >= 255 THEN NEXT_STATE[current_state] ELSE current_state
    /\ UNCHANGED << now, action_cooldown, recognition_history, current_phase_id, current_game_state, controller_running, stop_camera, game_running, opacity, volume, color_mode, last_call, recorded, writes >>
    /\ UNCHANGED << gateVars, phaseVars, processorVars, repeatVars, lookupVars, threadVars >>

\* a detection centred on, just inside or just outside an edge of a
\* rectangle of a screen, the gesture that skips the tutorial, or a pass of
\* the game loop over the cutscene shown
LookupNext ==
    \/ \E x \in UNION {{ZONE_RECTS[n][1] - 1, ZONE_RECTS[n][1], ZONE_RECTS[n][3], ZONE_RECTS[n][3] + 1} : n \in DOMAIN ZONE_RECTS},
          y \in UNION {{ZONE_RECTS[n][2] - 1, ZONE_RECTS[n][2], ZONE_RECTS[n][4], ZONE_RECTS[n][4] + 1} : n \in DOMAIN ZONE_RECTS} :
           detect_object_zone(x, y)
    \/ ExecuteAction(Call("Closed_Fist", "GESTOS_DIREITA", HandKey("Left"), "gesture"), << 0, 0, 0 >>, MaxTime)
    \/ \E fading_out \in BOOLEAN, elapsed \in {0, fade_duration \div 2, fade_duration} : cutscene_update(fading_out, elapsed)

LookupSpec == DispatchInit /\ [][LookupNext]_vars

\* ------------------------------------------------------- claims: validator

\* what the last callback did with entity k
SeenEntity(k) == last_frame.seen[k]

\* the last callback processed entity k with the non-null pair of its track
HeldSame(k) ==
    /\ SeenEntity(k).zone # NoZone
    /\ SeenEntity(k).before # NoTrack
    /\ SeenEntity(k).before.name = SeenEntity(k).name
    /\ SeenEntity(k).before.zone = SeenEntity(k).zone

\* the time entity k had held its track for at the last callback, and at
\* the callback before it
Dwelt(k) == last_frame.time - SeenEntity(k).before.start_time

DweltBefore(k) == last_frame.prev_time - SeenEntity(k).before.start_time

\* C1: an entity seen with the same non-null (name, zone) on every tick
\* since its track started at s does not commit at a tick with
\* now - s < RECOGNITION_VALIDATION_TIME, and commits exactly once at the
\* first tick with now - s >= RECOGNITION_VALIDATION_TIME
C1_Dwell ==
    \A k \in DOMAIN last_frame.seen :
        HeldSame(k) =>
            /\ Dwelt(k) < RECOGNITION_VALIDATION_TIME => SeenEntity(k).fired = 0
            /\ (Dwelt(k) >= RECOGNITION_VALIDATION_TIME /\ DweltBefore(k) < RECOGNITION_VALIDATION_TIME) => SeenEntity(k).fired = 1

\* C1 witness: an entity committed at the tick where its dwell is exactly
\* the threshold
C1_Witness ==
    \E k \in DOMAIN last_frame.seen :
        /\ HeldSame(k)
        /\ Dwelt(k) = RECOGNITION_VALIDATION_TIME
        /\ SeenEntity(k).fired = 1

\* the time since the last commit of the track of entity k at the last
\* callback, and at the callback before it
SinceCommit(k) == last_frame.time - SeenEntity(k).held

SinceCommitBefore(k) == last_frame.prev_time - SeenEntity(k).held

\* C2: after a commit at time c of a held (entity, name, zone) no tick with
\* now - c < ACTION_COOLDOWN_TIME commits, the first tick with
\* now - c >= ACTION_COOLDOWN_TIME commits exactly once and becomes the
\* last-commit time, so two consecutive commits of one continuously held
\* track are never less than ACTION_COOLDOWN_TIME apart
C2_Cooldown ==
    \A k \in DOMAIN last_frame.seen :
        (HeldSame(k) /\ SeenEntity(k).held # None) =>
            /\ SinceCommit(k) < ACTION_COOLDOWN_TIME => SeenEntity(k).fired = 0
            /\ (SinceCommit(k) >= ACTION_COOLDOWN_TIME /\ SinceCommitBefore(k) < ACTION_COOLDOWN_TIME) =>
                   /\ SeenEntity(k).fired = 1
                   /\ held_commit[k] = last_frame.time

\* the commit records of entity k present now
RecordsOf(k) ==
    {vk \in DOMAIN validated_recognitions : \E n \in RecNames, z \in RecZones : vk = ValidatedKey(k, n, z)}

\* C3: an entity processed with a (name, zone) other than its tracked pair
\* loses its old track and all its commit records, gets a new track that
\* starts at now, fires nothing on that tick, and does not commit before
\* now + RECOGNITION_VALIDATION_TIME
C3_PairChange ==
    /\ \A k \in Changed(last_frame.seen) :
           /\ SeenEntity(k).fired = 0
           /\ k \in DOMAIN recognition_start_times
           /\ recognition_start_times[k] = Track(SeenEntity(k).name, SeenEntity(k).zone, last_frame.time)
           /\ RecordsOf(k) = {}
    /\ \A k \in DOMAIN last_frame.seen :
           (SeenEntity(k).fired > 0 /\ k \in DOMAIN changed_at) =>
               last_frame.time - changed_at[k] >= RECOGNITION_VALIDATION_TIME

\* C3 witness: an entity that had committed in INPUT1 is seen in INPUT2:
\* its track restarts and its commit record is gone
C3_Witness ==
    \E k \in Changed(last_frame.seen) :
        /\ SeenEntity(k).held # None
        /\ SeenEntity(k).before.zone = "INPUT1"
        /\ recognition_start_times[k] = Track("clock", "INPUT2", last_frame.time)
        /\ RecordsOf(k) = {}


\* the entities the last callback processed outside every zone
Nulled == {k \in DOMAIN last_frame.seen : SeenEntity(k).zone = NoZone}

\* entity k committed at the last callback on a track that started after
\* the entity was last dropped and has lasted the validation time
FullNewDwell(k) ==
    /\ SeenEntity(k).before # NoTrack
    /\ SeenEntity(k).before.start_time > dropped_at[k].time
    /\ Dwelt(k) >= RECOGNITION_VALIDATION_TIME

\* C15: processing an entity whose zone is null removes the entity's track
\* and every commit record of the entity on that tick and fires nothing; an
\* entity that later returns to the same (name, zone) completes a full new
\* dwell before it commits
C15_NullZone ==
    /\ \A k \in Nulled :
           /\ SeenEntity(k).fired = 0
           /\ ~SeenEntity(k).dispatched
           /\ k \notin DOMAIN recognition_start_times
           /\ RecordsOf(k) = {}
    /\ \A k \in DOMAIN last_frame.seen :
           (SeenEntity(k).fired > 0 /\ k \in DOMAIN dropped_at /\ dropped_at[k].detected) => FullNewDwell(k)

\* C15 witness: at one callback an entity that had committed is outside
\* every zone, and another one, outside every zone earlier, commits after
\* its new dwell
C15_Witness ==
    \E a \in DOMAIN last_frame.seen, b \in Nulled :
        /\ SeenEntity(a).fired = 1
        /\ a \in DOMAIN dropped_at
        /\ dropped_at[a].detected
        /\ SeenEntity(b).before # NoTrack
        /\ SeenEntity(b).held # None

\* the entities the detector can report
RecKeys == {ObjectKey(n, i) : n \in RecNames, i \in RecIndices}

\* the entities the last callback did not detect
Undetected == RecKeys \ DOMAIN last_frame.seen

\* C16: after the cleanup of a tick no track and no commit record remains
\* for an entity outside the set of detected entities, an empty set
\* included; an entity that reappears starts a new track, commits nothing
\* on that tick and completes a full dwell before it commits again
C16_Cleanup ==
    /\ \A k \in Undetected : k \notin DOMAIN recognition_start_times /\ RecordsOf(k) = {}
    /\ DOMAIN last_frame.seen = {} => (DOMAIN recognition_start_times = {} /\ DOMAIN validated_recognitions = {})
    /\ \A k \in {j \in (DOMAIN last_frame.seen) \cap (DOMAIN dropped_at) : ~dropped_at[j].detected} :
           /\ (SeenEntity(k).before = NoTrack /\ SeenEntity(k).zone # NoZone) =>
                  /\ SeenEntity(k).fired = 0
                  /\ recognition_start_times[k] = Track(SeenEntity(k).name, SeenEntity(k).zone, last_frame.time)
           /\ SeenEntity(k).fired > 0 =>
                  last_frame.time - RECOGNITION_VALIDATION_TIME >= SeenEntity(k).before.start_time /\ SeenEntity(k).before.start_time > dropped_at[k].time

\* C16 witness: at one callback a tracked entity is not detected and is
\* cleaned, and another one, cleaned earlier and detected again, commits
\* after its new dwell
C16_Witness ==
    \E a \in DOMAIN last_frame.seen, b \in Undetected :
        /\ SeenEntity(a).fired = 1
        /\ a \in DOMAIN dropped_at
        /\ ~dropped_at[a].detected
        /\ a \notin DOMAIN changed_at
        /\ b \in DOMAIN dropped_at
        /\ dropped_at[b] = [time |-> last_frame.time, detected |-> FALSE]

\* the clock readings a progress query can take: the time of the last
\* callback or later
QueryTimes == {t \in 0..MaxTime : t >= last_frame.time}

\* the answer of a query for entity k at time t
Progress(k, t) == get_validation_progress(recognition_start_times, k, t)

\* C25: get_validation_progress returns 0 for an entity without a track and
\* otherwise min(elapsed / RECOGNITION_VALIDATION_TIME, 1) for the time
\* elapsed since the start of the track: the value is within [0, 1], it is 1
\* exactly from the dwell threshold on, and it does not decrease with the
\* time of the query, nor from one callback to the next while the entity
\* keeps its track
C25_Progress ==
    [][/\ \A k \in (DOMAIN last_frame'.seen) \ (DOMAIN recognition_start_times'), t \in QueryTimes' :
              Progress(k, t)' = 0
       /\ \A k \in DOMAIN recognition_start_times', t \in QueryTimes' :
              LET elapsed == t - recognition_start_times'[k].start_time
              IN  /\ Progress(k, t)' >= 0
                  /\ Progress(k, t)' <= 100
                  /\ Progress(k, t)' * RECOGNITION_VALIDATION_TIME =
                         100 * (IF elapsed < RECOGNITION_VALIDATION_TIME THEN elapsed ELSE RECOGNITION_VALIDATION_TIME)
                  /\ Progress(k, t)' = 100 <=> elapsed >= RECOGNITION_VALIDATION_TIME
                  /\ \A u \in QueryTimes' : u >= t => Progress(k, u)' >= Progress(k, t)'
       /\ \A k \in DOMAIN last_frame'.seen :
              (/\ k \in DOMAIN recognition_start_times
               /\ last_frame'.seen[k].zone # NoZone
               /\ last_frame'.seen[k].name = recognition_start_times[k].name
               /\ last_frame'.seen[k].zone = recognition_start_times[k].zone) =>
                  \A t \in QueryTimes, u \in QueryTimes' :
                      u >= t => Progress(k, u)' >= Progress(k, t)]_vars

\* C25 witness: at the last callback one entity has held its track for
\* longer than the dwell threshold and its progress is 1, and another is
\* half way through its dwell
C25_Witness ==
    /\ \E k \in DOMAIN recognition_start_times :
           /\ last_frame.time - recognition_start_times[k].start_time > RECOGNITION_VALIDATION_TIME
           /\ Progress(k, last_frame.time) = 100
    /\ \E k \in DOMAIN recognition_start_times :
           Progress(k, last_frame.time) * 2 = 100

\* C30: a commit record exists for (entity, name, zone) only if the entity
\* has an active track with that name and zone whose start time s satisfies
\* last commit time >= s + RECOGNITION_VALIDATION_TIME; hence an entity has
\* at most one commit record, and none without a track
C30_RecordNeedsTrack ==
    /\ \A vk \in DOMAIN validated_recognitions :
           \E k \in DOMAIN recognition_start_times :
               /\ vk = ValidatedKey(k, recognition_start_times[k].name, recognition_start_times[k].zone)
               /\ validated_recognitions[vk] >= recognition_start_times[k].start_time + RECOGNITION_VALIDATION_TIME
    /\ \A k \in RecKeys :
           /\ Cardinality(RecordsOf(k)) <= 1
           /\ k \notin DOMAIN recognition_start_times => RecordsOf(k) = {}

\* C30 witness: one entity holds a track with a commit record renewed after
\* the first commit of the track, while another entity, whose key is a
\* prefix of the first one's or has it as a prefix, has no track and no
\* record
C30_Witness ==
    \E k \in DOMAIN recognition_start_times, j \in RecKeys \ DOMAIN recognition_start_times :
        /\ RecordsOf(k) # {}
        /\ \A vk \in RecordsOf(k) :
               validated_recognitions[vk] > recognition_start_times[k].start_time + RECOGNITION_VALIDATION_TIME
        /\ RecordsOf(j) = {}
        /\ j \in DOMAIN dropped_at

\* -------------------------------------------------------- claims: pipeline

\* the action the tables permit for what entity k was seen with at the last
\* callback ("" when the zone does not accept it or no action matches)
PermittedAction(k) ==
    IF legal_for_zone(current_game_state, SeenEntity(k).name, SeenEntity(k).zone, "object")
    THEN chosen_action(SeenEntity(k).name, SeenEntity(k).zone, "object", current_game_state)
    ELSE ""

\* C5: every commit of the validator whose recognition is legal for its zone
\* and matches a permitted action executes that action exactly once; for a
\* single held entity the dispatch cooldown, measured with its own clock
\* readings, never swallows a commit
C5_CommitExecutes ==
    \A k \in DOMAIN last_frame.seen :
        (SeenEntity(k).fired = 1 /\ PermittedAction(k) # "") =>
            /\ SeenEntity(k).dispatched
            /\ ~SeenEntity(k).report.suppressed
            /\ SeenEntity(k).report.action = PermittedAction(k)

CalledKey == ActionKey(last_call'.name, last_call'.zone)

\* the call a step makes reads its clock less than ACTION_COOLDOWN_TIME
\* after an earlier call with the same (name, zone) was registered
InsideWindow ==
    /\ CalledKey \in DOMAIN action_cooldown
    /\ last_call'.checked_at - action_cooldown[CalledKey] < ACTION_COOLDOWN_TIME

\* the call a step makes ran no handler: nothing but the clock moved
NothingRan ==
    /\ last_call'.suppressed
    /\ last_call'.action = ""
    /\ UNCHANGED << action_cooldown, recognition_history, current_phase_id, current_game_state, current_state, controller_running, stop_camera, game_running, opacity, volume, color_mode, phaseVars >>

\* the call a step makes went through the handler of its type, was added to
\* the history and registered its cooldown
Executed ==
    /\ ~last_call'.suppressed
    /\ last_call'.action = chosen_action(last_call'.name, last_call'.zone, last_call'.type, current_game_state)
    /\ recognition_history' # <<>>
    /\ recognition_history'[Len(recognition_history')].item_info = last_call'.item_info
    /\ action_cooldown'[CalledKey] = last_call'.registered_at

\* C4: of two execute_action calls with the same (recognition_name,
\* zone_name), whatever their item_info and recognition_type, the second one
\* runs nothing when it is made less than ACTION_COOLDOWN_TIME after the
\* first was registered, and executes again once that time has elapsed
C4_CrossEntityThrottle ==
    [][ /\ InsideWindow => NothingRan
        /\ (CalledKey \in DOMAIN action_cooldown /\ ~InsideWindow) => Executed ]_vars

\* the calls in the history made with the (name, zone) of the last call
SameKeyHistory ==
    {i \in DOMAIN recognition_history :
        /\ recognition_history[i].name = last_call.name
        /\ recognition_history[i].zone = last_call.zone}

\* a call was executed again after the window of an earlier one, and then a
\* call from another entity of another type was suppressed inside the window
C4_Witness ==
    /\ last_call.name # ""
    /\ last_call.suppressed
    /\ \E i, j \in SameKeyHistory :
        /\ i < j
        /\ \A k \in SameKeyHistory : k <= j
        /\ recognition_history[j].item_info # last_call.item_info
        /\ recognition_history[j].type # last_call.type


\* ------------------------------------------------------ claims: history

\* the entry the call just made adds to the history
Recorded(call) ==
    [type |-> call.type, name |-> call.name, zone |-> call.zone, item_info |-> call.item_info, timestamp |-> call.checked_at]

\* C23: the recognition history never holds more than GESTURE_HISTORY_SIZE
\* entries: recording a recognition when the history is at capacity evicts
\* exactly the oldest entry, and the remaining entries stay in arrival
\* order, the new one last
C23_BoundedHistory ==
    [][/\ Len(recognition_history') <= GESTURE_HISTORY_SIZE
       /\ recorded' = recorded => recognition_history' = recognition_history
       /\ recorded' # recorded =>
              recognition_history' = IF Len(recognition_history) = GESTURE_HISTORY_SIZE
                                     THEN Append(Tail(recognition_history), Recorded(last_call'))
                                     ELSE Append(recognition_history, Recorded(last_call'))]_vars

\* C23 witness: more recognitions were recorded than the history holds, the
\* history is at capacity and its oldest entry is not the first recorded
C23_Witness ==
    /\ recorded > GESTURE_HISTORY_SIZE
    /\ Len(recognition_history) = GESTURE_HISTORY_SIZE
    /\ recognition_history[1].timestamp > 0
    /\ recognition_history[GESTURE_HISTORY_SIZE] = Recorded(last_call)
\* --------------------------------------------------------- claims: commits

\* the recognition type of the processor that tracks entity k
TypeOf(k) == IF k[Len(k)] = "hand" THEN "gesture" ELSE "object"

\* the screen shown has a zone named zone_name whose accepted names of the
\* recognition type contain name
ZoneAccepts(game_state, zone_name, name, type) ==
    /\ game_state \in DOMAIN SCREEN_ZONES
    /\ \E i \in DOMAIN SCREEN_ZONES[game_state] :
           /\ SCREEN_ZONES[game_state][i].name = zone_name
           /\ \/ type = "gesture" /\ name \in SCREEN_ZONES[game_state][i].gestures
              \/ type = "object" /\ name \in SCREEN_ZONES[game_state][i].objects

\* nothing the action handler writes changes in the step
NothingDispatched ==
    UNCHANGED << now, action_cooldown, recognition_history, current_phase_id, current_game_state, current_state, controller_running, stop_camera, game_running, opacity, volume, color_mode, last_call, phaseVars >>

\* C12: execute_action is invoked for a commit only if, when it fires, the
\* zone of the commit is a zone of the current game state and accepts the
\* recognition name for the recognition type; a commit that fails the test
\* dispatches nothing
C12_LegalityAtCommit ==
    [][\A k \in DOMAIN last_frame'.seen :
           LET e == last_frame'.seen[k]
           IN  /\ e.dispatched => ZoneAccepts(current_game_state, e.zone, e.name, TypeOf(k))
               /\ (e.fired = 1 /\ ~ZoneAccepts(current_game_state, e.zone, e.name, TypeOf(k))) =>
                      (~e.dispatched /\ NothingDispatched)]_vars

\* C12 witness: after an action ran in another screen, a commit of an
\* object in a zone the present screen does not have dispatched nothing
C12_Witness ==
    /\ current_game_state = "fase1"
    /\ recognition_history # <<>>
    /\ \E k \in DOMAIN last_frame.seen :
           /\ last_frame.seen[k].fired = 1
           /\ last_frame.seen[k].zone = "COR"
           /\ ~last_frame.seen[k].dispatched
    /\ last_call.zone # "COR"

\* ------------------------------------------------------- claims: routing

\* the action ids permitted for a recognition of the type in the state (and,
\* for a gesture, the zone), in the authored order
PermittedIds(type, game_state, zone_name) ==
    IF type = "gesture" THEN gesture_valid_actions(game_state, zone_name)
    ELSE IF type = "object" THEN object_valid_actions(game_state)
    ELSE << >>

\* the table of the actions of a recognition type
ActionsOf(type) == IF type = "gesture" THEN GESTURE_ACTIONS ELSE OBJECT_ACTIONS

\* the positions of ids whose action accepts the name
Accepting(ids, type, name) ==
    {i \in DOMAIN ids : ids[i] \in DOMAIN ActionsOf(type) /\ name \in ActionsOf(type)[ids[i]]}

\* what the action handlers write, apart from the clock, the cooldowns and
\* the history
HandlerView(S) ==
    << S.current_game_state, S.current_state, S.zone_objects, S.current_phase_id, S.controller_running, S.stop_camera, S.game_running, S.opacity, S.volume, S.color_mode, S.current_phase, S.last_validation_results, S.last_validation_errors, S.show_results, S.zone_values, S.ret >>

\* the call of the step ran the handler of the first accepting id and no
\* other, or no handler when no id accepts the name
RoutedOnce(e) ==
    LET ids == PermittedIds(e.report.type, current_game_state, e.zone)
        hits == Accepting(ids, e.report.type, e.name)
        first == CHOOSE i \in hits : \A j \in hits : i <= j
    IN  IF hits = {}
        THEN e.report.action = "" /\ HandlerView(World)' = HandlerView(World)
        ELSE e.report.action = ids[first] /\ HandlerView(World)' = HandlerView(run_action(World, ids[first], e.name))

\* C13: an execute_action call that is not on cooldown runs at most one
\* action handler, that of the first action id, in the authored order for
\* the current state, whose accepted names contain the recognition name;
\* when no permitted action accepts the name no handler runs
C13_FirstMatch ==
    [][\A k \in DOMAIN last_frame'.seen :
           LET e == last_frame'.seen[k]
           IN  (e.dispatched /\ ~e.report.suppressed) => RoutedOnce(e)]_vars

\* C13 witness: a gesture ran the second id of its zone's list (the first
\* id does not accept it), then an object ran the only id, past three ids
\* without an action, that accepts it
C13_Witness ==
    /\ Len(recognition_history) >= 2
    /\ recognition_history[1].name = "Closed_Fist"
    /\ current_game_state = "fase1"
    /\ last_call.name = "clock"
    /\ ~last_call.suppressed
    /\ last_call.action = "CHANGE_COLOR_MODE"
    /\ color_mode = "grayscale"

\* the zone configured for each settings action
SettingsZone == [CHANGE_VOLUME |-> "SOM", CHANGE_BRIGHTNESS |-> "BRILHO", CHANGE_COLOR_MODE |-> "COR"]

\* C14: an action is executed only if its id is permitted for the current
\* (game_state, zone_name) pair: CHANGE_VOLUME, CHANGE_BRIGHTNESS and
\* CHANGE_COLOR_MODE run only for an object committed in the zone configured
\* for the action (SOM, BRILHO, COR), never for one committed in another zone
\* such as INPUT1, INPUT2, GATE1 or GATE2 of fase1
C14_ZoneScoped ==
    [][\A k \in DOMAIN last_frame'.seen :
           LET e == last_frame'.seen[k]
           IN  (e.dispatched /\ ~e.report.suppressed /\ e.report.action \in DOMAIN SettingsZone)
                   => e.zone = SettingsZone[e.report.action]]_vars

\* ------------------------------------------------------------ claims: gates

\* the product of a list of numbers
RECURSIVE Product(_)
Product(xs) == IF Len(xs) = 0 THEN 1 ELSE Head(xs) * Product(Tail(xs))

\* the list with every input x replaced by 1 - x
Complemented(xs) == [i \in DOMAIN xs |-> 1 - xs[i]]

\* the boolean reference of a gate on a list: None for an empty AND/OR list,
\* a NOT list of another length than 1, or any input outside {0, 1}
GateReference(t, xs) ==
    IF \E i \in DOMAIN xs : xs[i] # 0 /\ xs[i] # 1 THEN None
    ELSE IF t = "not_gate" THEN (IF Len(xs) = 1 THEN 1 - xs[1] ELSE None)
    ELSE IF Len(xs) = 0 THEN None
    ELSE IF t = "and_gate" THEN Product(xs)
    ELSE 1 - Product(Complemented(xs))

\* C6: every gate evaluated on a list over {0, 1, other, None} returns the
\* boolean reference: AND is 1 iff the list is non-empty and all inputs are
\* 1, OR is 1 iff some input is 1, NOT complements its single input, and the
\* result is None for an empty AND/OR list, a NOT with another count than 1,
\* or any input that is not 0 or 1
C6_GateMatchesReference ==
    gate_type # "" => gate_result = GateReference(gate_type, gate_inputs)

\* C6 witness: an AND over three inputs with a 0 among them was evaluated
C6_Witness ==
    gate_type = "and_gate" /\ gate_inputs = <<1, 0, 1>> /\ gate_result = 0

\* ---------------------------------------------------- claims: phase, Fase 1

\* the label a zone held in the last validate_phase call
RetLabel(z) == GetLabel(ret.detected_objects, z)

\* the last call validated Fase 1 with sources in both input zones, the AND
\* gate in GATE1 and the NOT gate in GATE2
Fase1Assembled ==
    /\ ret.called
    /\ ret.phase = FASE1_CONFIG
    /\ RetLabel("INPUT1") \in {"remote", "clock"}
    /\ RetLabel("INPUT2") \in {"remote", "clock"}
    /\ RetLabel("GATE1") = "orange"
    /\ RetLabel("GATE2") = "scissors"

\* the Fase 1 value of a source label: solar (remote) is 0, wind (clock) is 1
Fase1SourceValue(label) == IF label = "remote" THEN 0 ELSE 1

\* C7: with Fase 1 loaded, sources in INPUT1/INPUT2, and_gate in GATE1 and
\* not_gate in GATE2, GATE1 is the AND of the two source values and GATE2
\* its complement; with one wind and one solar input GATE1 = 0, GATE2 = 1
\* and validate_phase succeeds
C7_Fase1Circuit ==
    Fase1Assembled =>
        LET a == Fase1SourceValue(RetLabel("INPUT1"))
            b == Fase1SourceValue(RetLabel("INPUT2"))
        IN  /\ DOMAIN ret.zone_values = PHASE_ZONES
            /\ ret.zone_values["INPUT1"] = a
            /\ ret.zone_values["INPUT2"] = b
            /\ ret.zone_values["GATE1"] = a * b
            /\ ret.zone_values["GATE2"] = 1 - a * b
            /\ (a # b => /\ ret.zone_values["GATE1"] = 0
                         /\ ret.zone_values["GATE2"] = 1
                         /\ ret.success = TRUE
                         /\ ret.message = "Voce conseguiu!")

\* C7 witness: wind in INPUT1, solar in INPUT2, validated with success
C7_Witness ==
    /\ Fase1Assembled
    /\ RetLabel("INPUT1") = "clock"
    /\ RetLabel("INPUT2") = "remote"
    /\ ret.success

\* ------------------------------------------------ claims: phase, the verdict

\* the last call ran with a phase loaded
Validated == ret.called /\ ret.phase # NoPhase

\* the names of the configured zones of the validated phase
RetZoneNames == {ret.phase.zones[i].name : i \in DOMAIN ret.phase.zones}

\* every configured zone held an object in the last call
RetComplete == \A z \in RetZoneNames : RetLabel(z) # NoObject

\* the output zone's value in the returned table (None when it has no entry)
RetOutput == GetValue(ret.zone_values, ret.phase.output_zone)

\* C8: validate_phase succeeds iff every configured zone holds an object,
\* the evaluator reported no error and the output zone's value equals
\* expected_value; a complete, error-free circuit fails with "could not
\* compute output" when the output is None and with "incorrect result" when
\* the output is a value other than expected_value
C8_SuccessIff ==
    Validated =>
        /\ ret.success <=> (RetComplete /\ ret.errors = <<>> /\ RetOutput = ret.phase.expected_value)
        /\ (RetComplete /\ ret.errors = <<>> /\ RetOutput = None) => (~ret.success /\ ret.message = "Voce ainda nao conseguiu! Erro ao calcular saida.")
        /\ (RetComplete /\ ret.errors = <<>> /\ RetOutput \notin {None, ret.phase.expected_value}) => (~ret.success /\ ret.message = "Voce ainda nao conseguiu! Resultado incorreto.")

\* C8 witness: a complete, error-free circuit whose output zone has no value
C8_Witness ==
    /\ Validated
    /\ RetComplete
    /\ ret.errors = <<>>
    /\ RetOutput = None
    /\ ret.message = "Voce ainda nao conseguiu! Erro ao calcular saida."

\* ------------------------------------------- claims: phase, incompleteness

\* the configuration of zone z in the validated phase
RetZoneConfig(z) == ZoneConfigOf(ret.phase.zones, z)

\* the game element zone z held in the last call ("" when empty or unmapped)
RetElement(z) ==
    IF RetLabel(z) \in DOMAIN OBJECT_TO_GAME_ELEMENT THEN OBJECT_TO_GAME_ELEMENT[RetLabel(z)] ELSE ""

\* the evaluation order of the validated phase lists zone z
RetEvaluated(z) == \E i \in DOMAIN ret.phase.evaluation_order : ret.phase.evaluation_order[i] = z

\* the longest input chain of a phase: one step per configured zone
DependencyDepth == Cardinality(PHASE_ZONES)

\* zone z reaches an empty zone by following configured inputs, in at most
\* n steps
RECURSIVE DependsOnEmpty(_, _)
DependsOnEmpty(z, n) ==
    /\ n > 0
    /\ \E i \in DOMAIN RetZoneConfig(z).inputs :
           LET u == RetZoneConfig(z).inputs[i]
           IN  RetLabel(u) = NoObject \/ DependsOnEmpty(u, n - 1)

\* the same, following only input zones that hold a gate element
RECURSIVE GateDependsOnEmpty(_, _)
GateDependsOnEmpty(z, n) ==
    /\ n > 0
    /\ \E i \in DOMAIN RetZoneConfig(z).inputs :
           LET u == RetZoneConfig(z).inputs[i]
           IN  \/ RetLabel(u) = NoObject
               \/ RetElement(u) \in GATE_TYPES /\ GateDependsOnEmpty(u, n - 1)

\* an incomplete circuit fails with the fixed message and the evaluator's
\* table is returned
IncompleteVerdict ==
    /\ ret.success = FALSE
    /\ ret.message = "Voce ainda nao conseguiu! Circuito incompleto."
    /\ ret.zone_values = evaluate_circuit(ret.phase.zones, ret.detected_objects, ret.phase.inputs, OBJECT_TO_GAME_ELEMENT, ret.phase.evaluation_order)[1]

\* C9 as stated, for the registered phases: with a configured zone empty the call fails with the
\* "circuit incomplete" message, returns the partial values, and every zone
\* with inputs that depends directly or transitively on an empty zone has
\* value None in the returned table
C9_Original ==
    (Validated /\ ret.phase \in PHASES /\ ~RetComplete) =>
        /\ IncompleteVerdict
        /\ \A z \in RetZoneNames :
               DependsOnEmpty(z, DependencyDepth) => GetValue(ret.zone_values, z) = None

\* C9 amended: with a configured zone empty the call fails with the
\* "circuit incomplete" message whatever other errors exist and returns the
\* partial values; every evaluated zone that holds a gate element and
\* depends on an empty zone, directly or through zones holding gate
\* elements, has an entry with value None; every empty evaluated zone too
C9_IncompleteCircuit ==
    (Validated /\ ~RetComplete) =>
        /\ IncompleteVerdict
        /\ \A z \in RetZoneNames :
               (RetEvaluated(z) /\ RetLabel(z) = NoObject) =>
                   (z \in DOMAIN ret.zone_values /\ ret.zone_values[z] = None)
        /\ \A z \in RetZoneNames :
               (RetEvaluated(z) /\ RetElement(z) \in GATE_TYPES /\ GateDependsOnEmpty(z, DependencyDepth)) =>
                   (z \in DOMAIN ret.zone_values /\ ret.zone_values[z] = None)

\* C9 witness: Fase 1 with INPUT1 empty and the gates in place: other
\* errors exist, the message is "circuit incomplete", INPUT2 keeps its
\* value, GATE1 and GATE2 are None
C9_Witness ==
    /\ Validated
    /\ ret.phase = FASE1_CONFIG
    /\ RetLabel("INPUT1") = NoObject
    /\ RetLabel("INPUT2") = "clock"
    /\ RetLabel("GATE1") = "orange"
    /\ RetLabel("GATE2") = "scissors"
    /\ Len(ret.errors) = 3
    /\ ret.message = "Voce ainda nao conseguiu! Circuito incompleto."
    /\ ret.zone_values["INPUT2"] = 1
    /\ ret.zone_values["GATE1"] = None
    /\ ret.zone_values["GATE2"] = None

\* ------------------------------------------ claims: phase, illegal element

\* zone z held a recognised element outside its allowed_elements
RetIllegal(z) ==
    /\ RetElement(z) # ""
    /\ RetElement(z) \notin RetZoneConfig(z).allowed_elements

\* the position of zone z in the evaluation order of the validated phase
RetPos(z) == CHOOSE i \in DOMAIN ret.phase.evaluation_order : ret.phase.evaluation_order[i] = z

\* the returned values of the input zones of z, in configuration order
RetInputValues(z) ==
    [i \in DOMAIN RetZoneConfig(z).inputs |-> GetValue(ret.zone_values, RetZoneConfig(z).inputs[i])]

\* the value of the element placed in z, from the returned values of its
\* input zones (a gate) or the phase's input context (a source)
RetPlacedValue(z) ==
    IF RetElement(z) \in GATE_TYPES
    THEN gate_evaluate(RetElement(z), RetInputValues(z))
    ELSE GetValue(ret.phase.inputs, IF RetElement(z) = "solar_input" THEN "solar" ELSE "eolico")

\* the errors returned contain the "not permitted" entry of zone z
RetNotPermitted(z) ==
    \E i \in DOMAIN ret.errors : ret.errors[i] = NotPermittedErr(RetElement(z), z)

\* every zone reading z, evaluated after all of its inputs and holding a
\* gate element, has the value of that gate on the returned input values
RetFedDownstream(z) ==
    \A d \in RetZoneNames :
        (/\ RetEvaluated(d)
         /\ RetElement(d) \in GATE_TYPES
         /\ \E i \in DOMAIN RetZoneConfig(d).inputs : RetZoneConfig(d).inputs[i] = z
         /\ \A i \in DOMAIN RetZoneConfig(d).inputs :
                LET u == RetZoneConfig(d).inputs[i]
                IN  RetEvaluated(u) /\ RetPos(u) < RetPos(d) /\ GetValue(ret.zone_values, u) # None)
        => ret.zone_values[d] = gate_evaluate(RetElement(d), RetInputValues(d))

\* C10 as stated, for the registered phases: a zone holding a recognised element outside its
\* allowed_elements still gets the value of the element placed, the errors
\* contain a "not permitted" entry for that zone, and the call fails
C10_Original ==
    (Validated /\ ret.phase \in PHASES) =>
        \A z \in RetZoneNames :
            (RetEvaluated(z) /\ RetIllegal(z)) =>
                /\ GetValue(ret.zone_values, z) # None
                /\ ret.zone_values[z] = RetPlacedValue(z)
                /\ RetNotPermitted(z)
                /\ ret.success = FALSE

\* C10 amended: a zone holding a recognised element outside its
\* allowed_elements makes the call fail; when the placed element's value
\* can be computed the zone gets that value, downstream gates read it as if
\* it were legal, and the errors contain a "not permitted" entry for the
\* zone; when it cannot be computed the zone's value is None and the errors
\* contain no "not permitted" entry for it
C10_IllegalElement ==
    Validated =>
        \A z \in RetZoneNames :
            RetIllegal(z) =>
                /\ ret.success = FALSE
                /\ RetEvaluated(z) =>
                       IF GetValue(ret.zone_values, z) # None
                       THEN /\ ret.zone_values[z] = RetPlacedValue(z)
                            /\ RetFedDownstream(z)
                            /\ RetNotPermitted(z)
                       ELSE ~RetNotPermitted(z)

\* C10 witness: Fase 1 with wind in both inputs and an OR gate where only
\* the AND gate is allowed: GATE1 = OR(1, 1) = 1, GATE2 = NOT(1) = 0, the
\* "not permitted" entry for GATE1 is the only error, the call fails
C10_Witness ==
    /\ Validated
    /\ ret.phase = FASE1_CONFIG
    /\ RetLabel("INPUT1") = "clock"
    /\ RetLabel("INPUT2") = "clock"
    /\ RetLabel("GATE1") = "cell phone"
    /\ RetLabel("GATE2") = "scissors"
    /\ ret.zone_values["GATE1"] = 1
    /\ ret.zone_values["GATE2"] = 0
    /\ ret.errors = << NotPermittedErr("or_gate", "GATE1") >>
    /\ ret.success = FALSE
    /\ ret.message = "Voce ainda nao conseguiu! Objeto nao permitido na zona."

\* ------------------------------------------- claims: phase, stored results

\* the evaluator's output for the loaded phase and the present zone map
Evaluated ==
    evaluate_circuit(current_phase.zones, zone_objects, current_phase.inputs, OBJECT_TO_GAME_ELEMENT, current_phase.evaluation_order)

\* what a validate_phase call leaves for display
ResultsStored ==
    /\ ret'.called
    /\ last_validation_results' = ret'.zone_values
    /\ DOMAIN ret'.zone_values = Range(current_phase.evaluation_order)
    /\ last_validation_errors' = Evaluated[2]
    /\ show_results' = TRUE

\* C11: every validate_phase call with a phase loaded, whatever its outcome,
\* leaves last_validation_results equal to the table it returns (one entry
\* per zone of evaluation_order), last_validation_errors equal to the
\* evaluator's error list, and show_results = True
C11_ResultsStored == [][(current_phase # NoPhase /\ ValidatePhase) => ResultsStored]_vars

\* C11 witness: a failed validation of an incomplete circuit with evaluator
\* errors, its table and its errors stored for display
C11_Witness ==
    /\ Validated
    /\ ret.phase = FASE1_CONFIG
    /\ ~ret.success
    /\ ~RetComplete
    /\ ret.errors # <<>>
    /\ show_results
    /\ last_validation_results = ret.zone_values
    /\ last_validation_errors = ret.errors
    /\ DOMAIN last_validation_results = PHASE_ZONES


\* ------------------------------------------ claims: phase, error messages

\* the returned errors hold an "object not recognised" error, a "not
\* permitted in zone" error
RetHasUnrecognised ==
    \E i \in DOMAIN ret.errors : ret.errors[i].text = "Objeto '{}' nao e reconhecido pelo jogo"

RetHasNotPermitted ==
    \E i \in DOMAIN ret.errors : ret.errors[i].text = "Elemento '{}' nao e permitido na zona {}"

\* C17: when the circuit is complete and the evaluator reported errors,
\* validate_phase fails with the "invalid object" message if an error is an
\* "object not recognised" error, otherwise with the "not permitted in zone"
\* message if an error is a "not permitted" error, otherwise with the
\* generic "check your circuit" message
C17_ErrorPriority ==
    (Validated /\ RetComplete /\ ret.errors # <<>>) =>
        /\ ret.success = FALSE
        /\ ret.message = IF RetHasUnrecognised THEN "Voce ainda nao conseguiu! Objeto invalido detectado."
                         ELSE IF RetHasNotPermitted THEN "Voce ainda nao conseguiu! Objeto nao permitido na zona."
                         ELSE "Voce ainda nao conseguiu! Verifique a montagem do circuito."

\* C17 witness: Fase 1, complete, with a source where only the AND gate is
\* allowed and, after it in the order, a label the game does not map: the
\* "not permitted" error comes first in the list and the message is the
\* "invalid object" one
C17_Witness ==
    /\ Validated
    /\ ret.phase = FASE1_CONFIG
    /\ RetComplete
    /\ RetLabel("GATE1") = "clock"
    /\ RetLabel("GATE2") = "cup"
    /\ Len(ret.errors) = 2
    /\ ret.errors[1] = NotPermittedErr("wind_input", "GATE1")
    /\ ret.errors[2].text = "Objeto '{}' nao e reconhecido pelo jogo"
    /\ ret.message = "Voce ainda nao conseguiu! Objeto invalido detectado."

\* ------------------------------------------- claims: phase, the error list

\* the evaluation order of the validated phase
RetOrder == ret.phase.evaluation_order

\* the zone at position i of the order is flagged invalid: it has no
\* configuration, its value is None, or its element is not permitted in it
RetFlagged(i) ==
    \/ ~HasZoneConfig(ret.phase.zones, RetOrder[i])
    \/ GetValue(ret.zone_values, RetOrder[i]) = None
    \/ RetIllegal(RetOrder[i])

RetFlaggedPositions == {i \in DOMAIN RetOrder : RetFlagged(i)}

\* the j-th flagged position of the order
RetNthFlagged(j) ==
    CHOOSE i \in RetFlaggedPositions : Cardinality({p \in RetFlaggedPositions : p <= i}) = j

\* what the error of a zone names: the zone, its label, its element, one of
\* its input zones or the key of its source
RetNamedBy(z) ==
    {z, RetLabel(z), RetElement(z), "solar", "eolico"}
        \cup (IF HasZoneConfig(ret.phase.zones, z) THEN Range(RetZoneConfig(z).inputs) ELSE {})

\* error err is an error of zone z
RetErrorOf(err, z) ==
    /\ err # NoErr
    /\ err.a \in RetNamedBy(z)
    /\ err.b \in {"", z}

\* C18: evaluate_circuit appends at most one error per entry of
\* evaluation_order, in evaluation order, and appends an error for a zone
\* exactly when the zone is flagged invalid (no configuration, value None or
\* element not permitted)
C18_OneErrorPerFlaggedZone ==
    Validated =>
        /\ Len(ret.errors) = Cardinality(RetFlaggedPositions)
        /\ \A j \in DOMAIN ret.errors : RetErrorOf(ret.errors[j], RetOrder[RetNthFlagged(j)])

\* C18 witness: an order naming a zone without configuration between two
\* gates; GATE1 holds a source that is not permitted there and keeps its
\* value, GATE3 has no configuration, GATE2 is empty: three errors, in the
\* order of the zones, none for the two inputs
C18_Witness ==
    /\ Validated
    /\ ret.phase.fase_id = 13
    /\ RetLabel("INPUT1") = "clock"
    /\ RetLabel("INPUT2") = "remote"
    /\ RetLabel("GATE1") = "clock"
    /\ RetLabel("GATE2") = NoObject
    /\ ret.zone_values["GATE1"] = 1
    /\ ret.errors = << NotPermittedErr("wind_input", "GATE1"),
                       Err("Zona '{}' nao encontrada na configuracao", "GATE3", ""),
                       Err("Zona {} esta vazia", "GATE2", "") >>

\* ---------------------------------- claims: phase, which error is recorded

\* the error recorded for the flagged zone at position i of the order
RetErrorAt(i) == ret.errors[Cardinality({p \in RetFlaggedPositions : p <= i})]

\* the input key of a source element
SourceKey(game_element) == IF game_element = "solar_input" THEN "solar" ELSE "eolico"

\* an input zone without an entry in the table
Unevaluated == None - 1

\* the value input zone u had when the zone at position i was evaluated:
\* its returned value when u comes earlier in the order
RetValueBefore(i, u) ==
    IF \E p \in 1..(i - 1) : RetOrder[p] = u THEN ret.zone_values[u] ELSE Unevaluated

\* the values the input zones of the zone at position i had at that time
RetInputsBefore(i) ==
    [k \in DOMAIN RetZoneConfig(RetOrder[i]).inputs |-> RetValueBefore(i, RetZoneConfig(RetOrder[i]).inputs[k])]

\* the gate at position i cannot be evaluated: no inputs configured, an
\* upstream value missing or None, or an invalid gate result
RetGateFails(i) ==
    \/ Len(RetInputsBefore(i)) = 0
    \/ \E k \in DOMAIN RetInputsBefore(i) : RetInputsBefore(i)[k] \in {Unevaluated, None}
    \/ gate_evaluate(RetElement(RetOrder[i]), RetInputsBefore(i)) = None

\* the conditions of the list that apply to the zone at position i, by
\* their number in the list
RetApplicable(i) ==
    LET z == RetOrder[i]
        el == RetElement(z)
    IN  IF ~HasZoneConfig(ret.phase.zones, z) THEN {1}
        ELSE IF RetLabel(z) = NoObject THEN {2}
        ELSE IF el = "" THEN {3}
        ELSE (IF el \notin RetZoneConfig(z).allowed_elements THEN {4} ELSE {})
             \cup (IF el \in {"solar_input", "wind_input"} /\ GetValue(ret.phase.inputs, SourceKey(el)) = None THEN {5} ELSE {})
             \cup (IF el \in GATE_TYPES /\ RetGateFails(i) THEN {6} ELSE {})
             \cup (IF el \notin {"solar_input", "wind_input"} \cup GATE_TYPES THEN {7} ELSE {})

\* the condition of the list an error message reports
ErrCondition(err) ==
    CASE err.text = "Zona '{}' nao encontrada na configuracao" -> 1
      [] err.text = "Zona {} esta vazia" -> 2
      [] err.text = "Objeto '{}' nao e reconhecido pelo jogo" -> 3
      [] err.text = "Elemento '{}' nao e permitido na zona {}" -> 4
      [] err.text = "Valor do input '{}' nao definido" -> 5
      [] err.text \in {"Zona {} nao tem inputs definidos", "Input '{}' ainda nao foi avaliado", "Input '{}' tem valor invalido", "Erro ao avaliar porta {} na zona {}"} -> 6
      [] err.text = "Elemento '{}' nao e um input nem uma porta valida" -> 7
      [] OTHER -> 0

\* the smallest element of a non-empty set of numbers
Least(S) == CHOOSE n \in S : \A m \in S : n <= m

\* the condition the evaluator reports among those that apply: "not
\* permitted" (4) only when no other one applies
RetReported(i) ==
    IF RetApplicable(i) = {4} THEN 4 ELSE Least(RetApplicable(i) \ {4})

\* C19 as stated, for the registered phases: when several error conditions apply to one zone, the
\* error recorded is that of the first applicable condition in the listed
\* order: no matching config, zone empty, object not mapped, element not
\* permitted, input value missing for a source, upstream value missing/None
\* or gate result invalid, element neither source nor gate
C19_Original ==
    (Validated /\ ret.phase \in PHASES) =>
        \A i \in RetFlaggedPositions :
            /\ RetApplicable(i) # {}
            /\ ErrCondition(RetErrorAt(i)) = Least(RetApplicable(i))

\* C19 amended: the error recorded for a zone is that of the first
\* applicable condition in the order: no matching config, zone empty,
\* object not mapped, input value missing for a source, gate without
\* configured inputs or upstream value missing/None or gate result invalid,
\* element neither source nor gate; "element not permitted" is recorded only
\* when none of the others applies, that is when the value was computed
C19_FirstCondition ==
    Validated =>
        \A i \in RetFlaggedPositions :
            /\ RetApplicable(i) # {}
            /\ ErrCondition(RetErrorAt(i)) = RetReported(i)
            /\ RetReported(i) = 4 <=> GetValue(ret.zone_values, RetOrder[i]) # None

\* C19 witness: Fase 1 with INPUT1 empty and a NOT gate where only the AND
\* gate is allowed: for GATE1 "not permitted" and "upstream value None" both
\* apply and the recorded error is the upstream one
C19_Witness ==
    /\ Validated
    /\ ret.phase = FASE1_CONFIG
    /\ RetLabel("INPUT1") = NoObject
    /\ RetLabel("INPUT2") = "clock"
    /\ RetLabel("GATE1") = "scissors"
    /\ RetApplicable(3) = {4, 6}
    /\ RetErrorAt(3) = Err("Input '{}' tem valor invalido", "INPUT1", "")

\* ------------------------------------------ claims: phase, nothing raises

\* the zone at position i of the order is affected by an authoring error or
\* by what the zones hold: no configuration, no object, an unmapped label,
\* a source whose input key is missing, a gate with an input zone that is
\* not in the table yet (misordered or omitted) or has value None
RetAffected(i) ==
    LET z == RetOrder[i]
        el == RetElement(z)
    IN  \/ ~HasZoneConfig(ret.phase.zones, z)
        \/ RetLabel(z) = NoObject
        \/ el = ""
        \/ el \in {"solar_input", "wind_input"} /\ SourceKey(el) \notin DOMAIN ret.phase.inputs
        \/ el \in GATE_TYPES /\ \E k \in DOMAIN RetInputsBefore(i) : RetInputsBefore(i)[k] \in {Unevaluated, None}

\* the call returned a verdict and a table with an entry for every zone of
\* the order, the later ones included; each affected zone has value None
\* and an error entry
Degraded ==
    /\ Validated
    /\ ret.success \in BOOLEAN
    /\ DOMAIN ret.zone_values = Range(RetOrder)
    /\ DOMAIN last_validation_results = Range(RetOrder)
    /\ \A i \in DOMAIN RetOrder :
           RetAffected(i) =>
               /\ ret.zone_values[RetOrder[i]] = None
               /\ i \in RetFlaggedPositions
               /\ ErrCondition(RetErrorAt(i)) \in {1, 2, 3, 5, 6}

\* C20: for any evaluation_order (names without a config, misordered or
\* omitted dependencies), any detected-object map (empty zones, unmapped
\* labels) and any input map (missing keys), a validate_phase call, with
\* the evaluate_circuit call in it, finishes with a result: each affected
\* zone has value None and an error entry, and every zone of
\* evaluation_order, the later ones included, has an entry in the table
C20_NeverRaises == [][(current_phase # NoPhase /\ ValidatePhase) => Degraded']_vars

\* C20 witness: a phase whose order puts GATE1 before its inputs, with an
\* unmapped label in INPUT1: GATE1 and INPUT1 get None and an error, INPUT2
\* after them gets its value, GATE2 reads the None of GATE1, all four zones
\* have an entry
C20_Witness ==
    /\ Validated
    /\ ret.phase.fase_id = 12
    /\ RetLabel("INPUT1") = "cup"
    /\ RetLabel("INPUT2") = "clock"
    /\ RetLabel("GATE1") = "orange"
    /\ RetLabel("GATE2") = "scissors"
    /\ ret.zone_values = [INPUT1 |-> None, INPUT2 |-> 1, GATE1 |-> None, GATE2 |-> None]
    /\ ret.errors = << Err("Input '{}' ainda nao foi avaliado", "INPUT1", ""),
                       Err("Objeto '{}' nao e reconhecido pelo jogo", "cup", ""),
                       Err("Input '{}' tem valor invalido", "GATE1", "") >>
\* -------------------------------------------- claims: phase, determinism

\* an earlier call r validated the phase and the zone map of the present call
SameInputs(r) ==
    /\ r.called
    /\ r.phase = current_phase
    /\ r.detected_objects = zone_objects

\* the present call returns what the earlier call r returned, and the
\* evaluator's table is the one of r
SameOutputs(r) ==
    /\ ret'.success = r.success
    /\ ret'.message = r.message
    /\ ret'.zone_values = r.zone_values
    /\ ret'.errors = r.errors
    /\ zone_values' = r.zone_values

Loaded(c) ==
    /\ current_phase = c
    /\ last_validation_results = EmptyDict
    /\ last_validation_errors = <<>>
    /\ show_results = FALSE

\* the last call validated phase p on the zone map m and its table is shown
FreshVerdict(p, m) ==
    /\ ret.called
    /\ ret.phase = p
    /\ ret.detected_objects = m
    /\ ret.success \in BOOLEAN
    /\ show_results
    /\ last_validation_results = ret.zone_values

\* C22: set_phase(config) replaces the active phase and resets the
\* validation state (results empty, errors empty, show_results False);
\* after any validate_phase outcome, success included, a further
\* validate_phase call returns a verdict for the phase then loaded and
\* set_phase loads another level: no outcome locks validation
C22_NoLock ==
    [][/\ \A c \in PhaseConfigs : set_phase(c) => Loaded(c)'
       /\ (ret.called /\ current_phase # NoPhase /\ ValidateAgain) => FreshVerdict(current_phase, zone_objects)']_vars

\* C22 witness: after a success on Fase 1 another level was loaded and
\* validated, and then Fase 1 was loaded again, which reset the validation
\* state
C22_Witness ==
    /\ first_ret.called /\ ret.called
    /\ first_ret.phase = FASE1_CONFIG
    /\ first_ret.success
    /\ ret.phase # NoPhase
    /\ ret.phase # FASE1_CONFIG
    /\ ret_before = first_ret
    /\ Loaded(FASE1_CONFIG)

\* the gate at position i of the order has a declared input zone that no
\* earlier position of the order evaluated
RetGateAhead(i) ==
    /\ HasZoneConfig(ret.phase.zones, RetOrder[i])
    /\ RetElement(RetOrder[i]) \in GATE_TYPES
    /\ \E k \in DOMAIN RetInputsBefore(i) : RetInputsBefore(i)[k] = Unevaluated

\* C27: evaluate_circuit rebuilds the table from empty on every call and
\* fills it in evaluation_order: after a call the keys of the table are
\* exactly the names of the order, a configured zone the order does not
\* list is absent, and a gate with a declared input zone not yet evaluated
\* in this pass has value None and an error, whatever the table of an
\* earlier pass held for that input
C27_FreshTable ==
    Validated =>
        /\ zone_values = ret.zone_values
        /\ DOMAIN zone_values = Range(RetOrder)
        /\ \A j \in DOMAIN ret.phase.zones :
               ret.phase.zones[j].name \notin Range(RetOrder) => ret.phase.zones[j].name \notin DOMAIN zone_values
        /\ \A i \in DOMAIN RetOrder :
               RetGateAhead(i) =>
                   /\ zone_values[RetOrder[i]] = None
                   /\ RetErrorAt(i).text \in {"Input '{}' ainda nao foi avaliado", "Input '{}' tem valor invalido"}
                   /\ RetErrorAt(i).a \in Range(RetZoneConfig(RetOrder[i]).inputs)

\* C27 witness: the pass before left values for both inputs of GATE1, and
\* this pass, of a phase that orders GATE1 first, gave the gate in GATE1
\* value None
C27_Witness ==
    /\ Validated
    /\ ret_before.called
    /\ ret_before.phase # NoPhase
    /\ GetValue(ret_before.zone_values, "INPUT1") \in {0, 1}
    /\ GetValue(ret_before.zone_values, "INPUT2") \in {0, 1}
    /\ RetOrder[1] = "GATE1"
    /\ RetGateAhead(1)
    /\ zone_values["GATE1"] = None

\* -------------------------------------------------------- claims: changers

\* the levels of the three managers
Levels == << opacity, volume, color_mode >>

\* the handler run of the step called the setter of its manager exactly when
\* the manager was not at the level configured for the object, and left the
\* manager at that level and the other managers alone
ChangerRan(configured, level, level_after, others) ==
    /\ last_call'.name \in DOMAIN configured
    /\ level_after = configured[last_call'.name]
    /\ writes' = IF level = configured[last_call'.name] THEN 0 ELSE 1
    /\ others

\* C24: a changer action of an object whose configured level is the level
\* of the owning manager writes nothing to the manager; otherwise it writes
\* once and the manager is at the configured level; the action of the same
\* object run twice in a row writes nothing the second time and leaves the
\* level; no other call writes to a manager
C24_ChangerIdempotent ==
    [][/\ (recorded' = recorded + 1 /\ last_call'.action = "CHANGE_BRIGHTNESS") =>
              ChangerRan(BRIGHTNESS_LEVELS, opacity, opacity', UNCHANGED << volume, color_mode >>)
       /\ (recorded' = recorded + 1 /\ last_call'.action = "CHANGE_VOLUME") =>
              ChangerRan(VOLUME_LEVELS, volume, volume', UNCHANGED << opacity, color_mode >>)
       /\ (recorded' = recorded + 1 /\ last_call'.action = "CHANGE_COLOR_MODE") =>
              ChangerRan(COLOR_MODES, color_mode, color_mode', UNCHANGED << opacity, volume >>)
       /\ (recorded' = recorded \/ last_call'.action \notin DOMAIN OBJECT_ACTIONS) =>
              (writes' = 0 /\ UNCHANGED Levels)
       /\ (/\ recorded' = recorded + 1
           /\ last_call'.action \in DOMAIN OBJECT_ACTIONS
           /\ ~last_call.suppressed
           /\ last_call.action = last_call'.action
           /\ last_call.name = last_call'.name) =>
              (writes' = 0 /\ UNCHANGED Levels)]_vars

\* C24 witness: the brightness action of an object has just run with the
\* overlay already at the object's opacity, after an earlier run wrote it,
\* and made no write
C24_Witness ==
    /\ ~last_call.suppressed
    /\ last_call.action = "CHANGE_BRIGHTNESS"
    /\ opacity = BRIGHTNESS_LEVELS[last_call.name]
    /\ opacity # BRIGHTNESS_LEVELS["apple"]
    /\ writes = 0

\* ------------------------------------------------------ claims: navigation

\* the call of the step was dispatched and ran the action
Ran(action) == recorded' = recorded + 1 /\ last_call'.action = action

\* the position of the screen shown in TUTORIAL_ORDER
TutorialIndex == IndexOf(TUTORIAL_ORDER, current_game_state)

Holds(r, x, y) == r[1] <= x /\ x <= r[3] /\ r[2] <= y /\ y <= r[4]

\* two rectangles share a point
Overlap(r, q) == r[1] <= q[3] /\ q[1] <= r[3] /\ r[2] <= q[4] /\ q[2] <= r[4]

\* the positions of the zones of the screen of the last lookup that hold its
\* point
LookedUpHits ==
    {i \in DOMAIN get_current_zones(looked_up.state) :
        Holds(ZONE_RECTS[get_current_zones(looked_up.state)[i].name], looked_up.x, looked_up.y)}

\* C29: get_zone_for_point returns the first zone of the list of the screen
\* shown whose rectangle holds the point, edges included, and None when no
\* zone holds it; in every configured screen the rectangles of the zones are
\* pairwise non-overlapping, so at most one zone holds a point
C29_ZoneForPoint ==
    /\ \A s \in DOMAIN SCREEN_ZONES : \A i, j \in DOMAIN SCREEN_ZONES[s] :
           i < j => ~Overlap(ZONE_RECTS[SCREEN_ZONES[s][i].name], ZONE_RECTS[SCREEN_ZONES[s][j].name])
    /\ looked_up # NoLookup =>
           /\ Cardinality(LookedUpHits) <= 1
           /\ LookedUpHits = {} => looked_up.zone = Zone(NoZone, {}, {})
           /\ \A i \in LookedUpHits :
                  (\A j \in LookedUpHits : i <= j) => looked_up.zone = get_current_zones(looked_up.state)[i]

\* C29 witness: in fase1 a point on the right edge of GATE2, within the
\* horizontal extent of the right gesture zone, was looked up and GATE2 was
\* returned
C29_Witness ==
    /\ looked_up.state = "fase1"
    /\ looked_up.x = ZONE_RECTS["GATE2"][3]
    /\ looked_up.x >= ZONE_RECTS["GESTOS_DIREITA"][1]
    /\ looked_up.zone.name = "GATE2"

\* ------------------------------------------------- claims: entity isolation

\* the commit record of the pair entity k was seen with at the last callback
SeenRecord(k) == ValidatedKey(k, SeenEntity(k).name, SeenEntity(k).zone)

\* C31: clearing the tracking of one entity (null zone, changed pair or
\* disappearance) leaves the track and the commit records of every other
\* entity unchanged, also when one entity key is a string prefix of
\* another: an entity that holds its committed pair keeps its track and its
\* commit record, and does not commit again before its own cooldown has
\* elapsed, whatever happened to the other entities of the callback
C31_ClearIsolated ==
    \A k \in DOMAIN last_frame.seen :
        (HeldSame(k) /\ SeenEntity(k).held # None /\ SinceCommit(k) < ACTION_COOLDOWN_TIME) =>
            /\ SeenEntity(k).fired = 0
            /\ k \in DOMAIN recognition_start_times
            /\ recognition_start_times[k] = SeenEntity(k).before
            /\ SeenRecord(k) \in DOMAIN validated_recognitions
            /\ validated_recognitions[SeenRecord(k)] = SeenEntity(k).held
\* ------------------------------------------------ claims: gate and routing

\* C32: for every game state, every zone of the state and every name the
\* zone accepts for a recognition type, dispatching the name in the zone
\* while not on cooldown executes some action: no recognition that passes
\* the zone-legality gate is left without a matching action
C32_LegalHasAction ==
    [][\A k \in DOMAIN last_frame'.seen :
           LET e == last_frame'.seen[k]
           IN  (e.dispatched /\ ~e.report.suppressed) =>
                   /\ ZoneAccepts(current_game_state, e.zone, e.name, TypeOf(k))
                   /\ e.report.action # ""]_vars
\* ------------------------------------------------------ claims: game state

\* C33: in every reachable state the StateManager's current state and
\* ZoneManager.current_game_state denote the same game state, also after
\* the cutscene transitions the game loop makes itself at the end of a
\* fade-out, so the zones used for detection are those of the screen shown
C33_SameState ==
    /\ current_state = current_game_state
\* ----------------------------------------------------- claims: held gesture

\* the hand of pass e held Victory in the right gesture zone on a track that
\* has committed
HeldVictory(e) ==
    /\ e.name = "Victory"
    /\ e.zone = "GESTOS_DIREITA"
    /\ e.before # NoTrack
    /\ e.before.name = e.name
    /\ e.before.zone = e.zone
    /\ e.held # None

\* C34: a track's dwell timer and commit record survive game-state
\* transitions: a hand that keeps Victory in GESTOS_DIREITA keeps its track
\* across the transition, its next action in the new state fires once
\* ACTION_COOLDOWN_TIME has passed since its last commit, without a new
\* dwell, so that it advances one cutscene per cooldown period up to fase1,
\* where it fires no further action
C34_HeldAcrossStates ==
    [][\A k \in DOMAIN last_frame'.seen :
           LET e == last_frame'.seen[k]
           IN  HeldVictory(e) =>
                   /\ k \in DOMAIN recognition_start_times'
                   /\ recognition_start_times'[k] = e.before
                   /\ (last_frame'.time - e.held >= ACTION_COOLDOWN_TIME /\ current_game_state \in TUTORIAL_STATES) =>
                          /\ e.fired = 1
                          /\ current_game_state' = NEXT_STATE[current_game_state]
                   /\ current_game_state = "fase1" =>
                          /\ ~e.dispatched
                          /\ current_game_state' = "fase1"]_vars
\* --------------------------------------------------------- claims: threads

\* the table a finished validation pass over the zone map stores
FinishedTable ==
    evaluate_circuit(FASE1_CONFIG.zones, zone_objects, FASE1_CONFIG.inputs, OBJECT_TO_GAME_ELEMENT, FASE1_CONFIG.evaluation_order)[1]

\* C35: under any interleaving of the detection thread running
\* validate_phase and the render thread calling get_validation_results and
\* should_show_results, every snapshot the render thread obtains is either
\* empty or the complete zone-value table of one finished validation pass,
\* never a partially filled table
C35_WholeSnapshot ==
    /\ render_thread.results \in {EmptyDict, FinishedTable}
    /\ last_validation_results \in {EmptyDict, FinishedTable}

\* C35 witness: the render thread copied the complete table of the pass
\* before while the detection thread, in its next pass, has filled two of
\* the four zones of the evaluator's table
C35_Witness ==
    /\ render_thread.pc = "read_show"
    /\ render_thread.results = FinishedTable
    /\ detection_thread.pc = "zone"
    /\ detection_thread.i = 3
    /\ DOMAIN zone_values = {"INPUT1", "INPUT2"}
    /\ \E z \in DOMAIN FinishedTable : FinishedTable[z] # None

RetSound(z) ==
    /\ HasZoneConfig(ret.phase.zones, z)
    /\ RetLabel(z) \in DOMAIN OBJECT_TO_GAME_ELEMENT
    /\ RetElement(z) \in RetZoneConfig(z).allowed_elements
    /\ GetValue(ret.zone_values, z) # None

\* no name is listed twice in the evaluation order of the validated phase
RetNoRepeats ==
    \A i, j \in DOMAIN ret.phase.evaluation_order :
        ret.phase.evaluation_order[i] = ret.phase.evaluation_order[j] => i = j

\* C37 as stated: after evaluate_circuit the error list is empty if and only if every
\* name in evaluation_order has a config, holds a mapped element allowed in
\* that zone and has a non-None value; consequently validate_phase returns
\* the "could not compute output" failure only when output_zone is not
\* among the names of evaluation_order
C37_Original ==
    Validated =>
        /\ ret.errors = <<>> <=> \A z \in Range(ret.phase.evaluation_order) : RetSound(z)
        /\ ret.message = "Voce ainda nao conseguiu! Erro ao calcular saida." =>
               ret.phase.output_zone \notin Range(ret.phase.evaluation_order)

\* C37 amended: after evaluate_circuit an empty error list implies that
\* every name in evaluation_order has a config, holds a mapped element
\* allowed in that zone and has a non-None value, and the converse holds
\* when no name is listed twice in evaluation_order (an error appended at an
\* earlier evaluation of a name stays in the list when a later evaluation
\* of the same name succeeds); validate_phase returns the "could not
\* compute output" failure only when output_zone is not among the names of
\* evaluation_order
C37_ErrorsIff ==
    Validated =>
        /\ ret.errors = <<>> => \A z \in Range(ret.phase.evaluation_order) : RetSound(z)
        /\ (RetNoRepeats /\ \A z \in Range(ret.phase.evaluation_order) : RetSound(z)) => ret.errors = <<>>
        /\ ret.message = "Voce ainda nao conseguiu! Erro ao calcular saida." =>
               ret.phase.output_zone \notin Range(ret.phase.evaluation_order)

\* C37 witness: a complete circuit without any error, in an order that
\* leaves the output zone out: the call fails with "could not compute
\* output"
C37_Witness ==
    /\ Validated
    /\ RetNoRepeats
    /\ ret.errors = <<>>
    /\ \A z \in Range(ret.phase.evaluation_order) : RetSound(z)
    /\ ret.phase.output_zone \notin Range(ret.phase.evaluation_order)
    /\ ret.message = "Voce ainda nao conseguiu! Erro ao calcular saida."

\* ------------------------------------------------------------ claim C38

\* the step is a callback of the object detector
ObjectTick ==
    /\ last_frame'.time > last_frame.time
    /\ HandKey("Left") \notin DOMAIN last_frame'.seen

\* the detections of the last callback that the loop processed, whose
\* centre lay in zone z
SeenIn(z) == {k \in DOMAIN last_frame'.seen : last_frame'.seen[k].zone = z}

\* the supported detections of the last callback that the loop skipped,
\* whose centre lay in zone z
SkippedIn(z) ==
    {i \in DOMAIN last_frame'.skipped : last_frame'.skipped[i].zone = z /\ last_frame'.skipped[i].name \in SUPPORTED_OBJECTS}

\* the map names, for zone z, a detection among those at keys in seen or at
\* indices in skipped that none of them exceeds in confidence, or None when
\* there is none
HoldsBest(z, in_seen, in_skipped) ==
    /\ z \in DOMAIN zone_objects'
    /\ (in_seen = {} /\ in_skipped = {}) => zone_objects'[z] = NoObject
    /\ (in_seen # {} \/ in_skipped # {}) =>
           \E d \in {last_frame'.seen[k] : k \in in_seen} \cup {last_frame'.skipped[i] : i \in in_skipped} :
               /\ zone_objects'[z] = d.name
               /\ \A k \in in_seen : last_frame'.seen[k].confidence <= d.confidence
               /\ \A i \in in_skipped : last_frame'.skipped[i].confidence <= d.confidence

\* a game-state change leaves the map empty; a step that neither is an
\* object callback nor changes the game state leaves the map alone, and a
\* validation is given the map as it is
MapFollowsTicks ==
    /\ current_game_state' # current_game_state => zone_objects' = EmptyDict
    /\ (~ObjectTick /\ current_game_state' = current_game_state) => zone_objects' = zone_objects
    /\ (recorded' # recorded /\ last_call'.action = "PHASE_VALIDATE") =>
           /\ ret'.called
           /\ ret'.detected_objects = zone_objects

\* C38 as stated: after an object-detection callback in state fase1 the
\* zone-object map holds, for each of INPUT1, INPUT2, GATE1 and GATE2, the
\* name of the supported detection of the callback in that zone that has
\* the highest confidence, or None when the zone held no supported
\* detection; a game-state change empties the map and a validation uses the
\* map of the latest callback in the current state
C38_Original ==
    [][/\ (ObjectTick /\ current_game_state = "fase1") =>
              /\ current_game_state' = "fase1"
              /\ \A z \in phase_zones : HoldsBest(z, SeenIn(z), SkippedIn(z))
       /\ MapFollowsTicks
    ]_vars

\* C38 amended: after an object-detection callback in state fase1 the
\* zone-object map holds, for each of INPUT1, INPUT2, GATE1 and GATE2, the
\* name of the detection of the highest confidence among the supported
\* detections of the callback in that zone whose confidence is not below
\* MIN_OBJECT_DETECTION_CONFIDENCE, accepted by the zone or not and seen
\* for the first time or not, or None when the zone held no such detection;
\* a game-state change empties the map and a validation uses the map of the
\* latest callback in the current state
C38_LatestObjects ==
    [][/\ (ObjectTick /\ current_game_state = "fase1") =>
              /\ current_game_state' = "fase1"
              /\ \A z \in phase_zones : HoldsBest(z, SeenIn(z), {})
       /\ MapFollowsTicks
    ]_vars

\* C38 witness: a callback saw a clock and, with higher confidence, an
\* orange in INPUT1 for the first time; the map names the orange, which the
\* zone does not accept, and the validation that followed was given it
C38_Witness ==
    /\ current_game_state = "fase1"
    /\ GetLabel(zone_objects, "INPUT1") = "orange"
    /\ GetLabel(zone_objects, "INPUT2") = NoObject
    /\ last_call.action = "PHASE_VALIDATE"
    /\ ret.called
    /\ ret.detected_objects = zone_objects
    /\ \E k \in DOMAIN recognition_start_times : recognition_start_times[k].name = "clock"

\* ------------------------------------------------------------ claim C39

\* the step is a commit of the hand whose execute_action call returned at
\* the cooldown test
SuppressedHandCall ==
    /\ HandKey("Left") \in DOMAIN last_frame'.seen
    /\ last_frame'.seen[HandKey("Left")].dispatched
    /\ last_frame'.seen[HandKey("Left")].report.suppressed

\* C39: an execute_action call that the dispatch cooldown suppresses
\* changes nothing: the recognition history, the cooldown table, the game
\* state of the zone manager and of the state manager, the zone-object map,
\* the loaded phase and its validation state stay as they were
C39_SuppressedFrame ==
    [][SuppressedHandCall =>
           UNCHANGED << recognition_history, action_cooldown, current_game_state, current_state, zone_objects,
                        current_phase, current_phase_id, last_validation_results, last_validation_errors, show_results, zone_values, ret,
                        controller_running, stop_camera, game_running, opacity, volume, color_mode, recorded >>
    ]_vars

\* C39 witness: a validate gesture was suppressed while the map held an
\* object, a validation had been stored and the history held its call
C39_Witness ==
    /\ HandKey("Left") \in DOMAIN last_frame.seen
    /\ last_frame.seen[HandKey("Left")].dispatched
    /\ last_frame.seen[HandKey("Left")].report.suppressed
    /\ last_call.suppressed
    /\ last_call.name = "Open_Palm"
    /\ GetLabel(zone_objects, "INPUT1") # NoObject
    /\ show_results
    /\ ret.called
    /\ recognition_history # <<>>
    /\ ActionKey("Open_Palm", "GESTOS_DIREITA") \in DOMAIN action_cooldown

\* ------------------------------------------------------------ claim C40

\* C40: an execute_action call that is not suppressed registers, after its
\* handler returned, the time of its last clock reading under its (name,
\* zone) key, whether an action matched or not, and leaves the other keys
\* alone; no call removes a key, not even one that changes the game state;
\* a call whose clock reads less than ACTION_COOLDOWN_TIME after the
\* registration of its key is suppressed, in whatever state it arrives
C40_CooldownSurvives ==
    [][/\ ~last_call'.suppressed =>
              /\ CalledKey \in DOMAIN action_cooldown'
              /\ action_cooldown'[CalledKey] = last_call'.registered_at
              /\ last_call'.registered_at >= last_call'.checked_at
              /\ \A k \in (DOMAIN action_cooldown) \ {CalledKey} :
                     k \in DOMAIN action_cooldown' /\ action_cooldown'[k] = action_cooldown[k]
       /\ last_call'.suppressed => action_cooldown' = action_cooldown
       /\ InsideWindow => last_call'.suppressed
    ]_vars

\* C40 witness: a call advanced the tutorial, and the same gesture in the
\* same zone, arriving in the new state inside the window of the
\* registration, was suppressed; before, a call that matched no action had
\* registered its key
C40_Witness ==
    /\ current_game_state = "cutscene2"
    /\ last_call.suppressed
    /\ last_call.name = "Victory"
    /\ last_call.zone = "GESTOS_DIREITA"
    /\ ActionKey("Victory", "GESTOS_DIREITA") \in DOMAIN action_cooldown
    /\ last_call.checked_at - action_cooldown[ActionKey("Victory", "GESTOS_DIREITA")] < ACTION_COOLDOWN_TIME
    /\ recognition_history[Len(recognition_history)].timestamp <= action_cooldown[ActionKey("Victory", "GESTOS_DIREITA")]
    /\ \E i \in DOMAIN recognition_history : recognition_history[i].type = "object"
====
